---- MODULE Spec2Model ----
(***************************************************************************)
(* Model of the deterministic analytics engine of the Smart Financial      *)
(* Coach (lib/analytics/deterministic.ts) and of its callers.              *)
(*                                                                         *)
(* Strings are sequences of one-character strings.  Amounts are exact      *)
(* decimals held as integers in mills (1/1000 of a dollar), so that the    *)
(* engine's rounding to cents is a real conversion.  Dates are local       *)
(* calendar days [y, m, d] with the month numbered 0..11 as getMonth().    *)
(***************************************************************************)
EXTENDS Integers, Sequences, FiniteSets, TLC

VARIABLES
    category,      \* normalizeCategory: the argument (a string or Null)
    normalized,    \* normalizeCategory: the returned string, or NotCalled
    transactions,  \* the caller's transaction list
    targetMonth,   \* the Date passed as currentMonth
    previousMonth, \* the Date named previousMonth: detectCategoryTrends'
                   \* argument, or the local of calculateCashflow once called
    result,        \* the value returned by the last engine call, or NoResult
    goal,          \* the goal of a forecast request, or NoGoal
    now,           \* new Date() of a request (a date and an hour)
    recurringCharge, \* the persisted recurring-charge records, oldest first
    goalInsight,   \* the persisted insight of the goal, or None
    requests       \* the insights requests in flight: each one's locals

vars == <<category, normalized, transactions, targetMonth, previousMonth,
          result, goal, now, recurringCharge, goalInsight, requests>>

(***************************************************************************)
(* Bounds of the model.                                                    *)
(***************************************************************************)
MaxLen == 4        \* longest category string enumerated character by character
MaxTxns == 3       \* most transactions in a snapshot
MaxAnomalyTxns == 7 \* most transactions in a snapshot given to detectAnomalies alone

(***************************************************************************)
(* Strings.                                                                *)
(***************************************************************************)
Null == <<"<null>">>
NotCalled == <<"<not called>">>

Lowers == <<"a","b","c","d","e","f","g","h","i","j","k","l","m",
            "n","o","p","q","r","s","t","u","v","w","x","y","z">>
Uppers == <<"A","B","C","D","E","F","G","H","I","J","K","L","M",
            "N","O","P","Q","R","S","T","U","V","W","X","Y","Z">>

Range(s) == {s[i] : i \in 1..Len(s)}

\* String.prototype.toUpperCase on one character
toUpperCase(c) ==
    IF \E i \in 1..Len(Lowers) : Lowers[i] = c
    THEN Uppers[CHOOSE i \in 1..Len(Lowers) : Lowers[i] = c]
    ELSE c

\* String.prototype.toLowerCase on one character
toLowerCase(c) ==
    IF \E i \in 1..Len(Uppers) : Uppers[i] = c
    THEN Lowers[CHOOSE i \in 1..Len(Uppers) : Uppers[i] = c]
    ELSE c

\* String.prototype.trim: white space is stripped from both ends
RECURSIVE trim(_)
trim(s) ==
    IF Len(s) = 0 THEN s
    ELSE IF s[1] = " " THEN trim(Tail(s))
    ELSE IF s[Len(s)] = " " THEN trim(SubSeq(s, 1, Len(s) - 1))
    ELSE s

\* String.prototype.split(sep): the pieces between the separators, empty
\* pieces included; a string without separator is its own single piece
RECURSIVE split(_, _)
split(s, sep) ==
    IF sep \notin Range(s) THEN <<s>>
    ELSE LET i == CHOOSE k \in 1..Len(s) :
                     s[k] = sep /\ \A j \in 1..(k - 1) : s[j] # sep
         IN  <<SubSeq(s, 1, i - 1)>> \o split(SubSeq(s, i + 1, Len(s)), sep)

\* Array.prototype.join(sep)
RECURSIVE join(_, _)
join(words, sep) ==
    IF Len(words) = 0 THEN <<>>
    ELSE IF Len(words) = 1 THEN words[1]
    ELSE words[1] \o <<sep>> \o join(Tail(words), sep)

\* word.charAt(0).toUpperCase() + word.slice(1).toLowerCase()
TitleWord(word) ==
    [i \in 1..Len(word) |->
        IF i = 1 THEN toUpperCase(word[i]) ELSE toLowerCase(word[i])]

Uncategorized == <<"U","n","c","a","t","e","g","o","r","i","z","e","d">>

\* The variant of normalizeCategory that splits on ' ' only
normalizeCategorySpaceOnly(cat) ==
    IF cat = Null \/ cat = <<>> \/ cat = Uncategorized THEN Uncategorized
    ELSE LET trimmed == trim(cat)
             words == split(trimmed, " ")
         IN  join([i \in 1..Len(words) |-> TitleWord(words[i])], " ")

normalizeCategory(cat) ==
    IF cat = Null \/ cat = <<>> \/ cat = Uncategorized THEN Uncategorized
    ELSE LET trimmed == trim(cat)
             words == IF "_" \in Range(trimmed)
                      THEN split(trimmed, "_")
                      ELSE split(trimmed, " ")
         IN  join([i \in 1..Len(words) |-> TitleWord(words[i])], " ")

(***************************************************************************)
(* Numbers.  JavaScript numbers are modelled as exact decimals.            *)
(***************************************************************************)
Abs(x) == IF x < 0 THEN -x ELSE x
Min(a, b) == IF a <= b THEN a ELSE b

\* Math.round(n / d) for d > 0: the nearest integer, halves towards +Infinity
\* (floor(n / d + 1/2), with the whole part taken out first)
MathRound(n, d) == (n \div d) + ((2 * (n % d) + d) \div (2 * d))

\* Math.round(x * 100) / 100 of an amount in mills: the amount in cents
RoundToCents(mills) == MathRound(mills, 10)

\* a number | null
None == <<>>
Some(v) == <<v>>

(***************************************************************************)
(* Dates: local calendar days.                                             *)
(***************************************************************************)
Date(y, m, d) == [y |-> y, m |-> m, d |-> d]

IsLeapYear(y) == (y % 4 = 0 /\ y % 100 # 0) \/ y % 400 = 0

DaysInMonth(y, m) ==
    IF m = 1 THEN (IF IsLeapYear(y) THEN 29 ELSE 28)
    ELSE IF m \in {3, 5, 8, 10} THEN 30
    ELSE 31

\* new Date(year, monthValue, day) for a month value in -12..23 and a day in
\* 1..31: the month is carried into the year, and a day past the end of the
\* month is carried into the following month
MakeDate(y, monthValue, d) ==
    LET yy == IF monthValue < 0 THEN y - 1
              ELSE IF monthValue > 11 THEN y + 1 ELSE y
        mm == monthValue % 12
        dim == DaysInMonth(yy, mm)
    IN  IF d <= dim THEN Date(yy, mm, d)
        ELSE IF mm = 11 THEN Date(yy + 1, 0, d - dim)
        ELSE Date(yy, mm + 1, d - dim)


\* const x = new Date(date); x.setMonth(monthValue)
setMonth(date, monthValue) == MakeDate(date.y, monthValue, date.d)

\* parseDate(d) of a Date instance: the instance itself
parseDate(d) == d

(***************************************************************************)
(* Transactions.                                                           *)
(***************************************************************************)
Txn(amount, date, cat, name, merchantName) ==
    [id |-> 0, amount |-> amount, date |-> date, category |-> cat,
     name |-> name, merchantName |-> merchantName]

\* ids are unique: a transaction is identified by its place in the store
WithIds(list) == [i \in 1..Len(list) |-> [list[i] EXCEPT !.id = i]]

SeqsUpTo(S, n) == UNION {[1..k -> S] : k \in 0..n}

\* Array.prototype.reduce((sum, t) => sum + t.amount, 0)
RECURSIVE SumAmounts(_)
SumAmounts(list) ==
    IF Len(list) = 0 THEN 0
    ELSE SumAmounts(SubSeq(list, 1, Len(list) - 1)) + list[Len(list)].amount

IsIncome(t) == t.amount > 0
IsExpense(t) == t.amount < 0

\* transactions.filter(t => month and year of parseDate(t.date) match)
InMonth(list, y, m) ==
    LET Match(t) == parseDate(t.date).m = m /\ parseDate(t.date).y = y
    IN  SelectSeq(list, Match)

(***************************************************************************)
(* calculateCashflow.  Money is returned in cents, savingsRate in          *)
(* hundredths of a percent.                                                *)
(***************************************************************************)
\* income - expenses of one month, in mills
MonthNet(list, y, m) ==
    LET monthTxns == InMonth(list, y, m)
        income == SumAmounts(SelectSeq(monthTxns, IsIncome))
        expenses == Abs(SumAmounts(SelectSeq(monthTxns, IsExpense)))
    IN  income - expenses


\* const previousMonth = new Date(currentMonth)
\* previousMonth.setMonth(previousMonth.getMonth() - 1)
CashflowPreviousMonth(currentMonth) ==
    setMonth(currentMonth, currentMonth.m - 1)


\* change = ((net - prevNet) / Math.abs(prevNet)) * 100, held as the fraction
\* changeNum / changeDen
CashflowTrend(net, prevNet) ==
    IF prevNet # 0
    THEN LET changeNum == (net - prevNet) * 100
             changeDen == Abs(prevNet)
         IN  IF changeNum > 5 * changeDen THEN "improving"
             ELSE IF changeNum < (-5) * changeDen THEN "declining"
             ELSE "stable"
    ELSE "stable"

\* savingsRate without the income > 0 test failing on a loss
CashflowSavingsRateNetGuard(income, net) ==
    IF net > 0 /\ income > 0 THEN Some(MathRound(net * 10000, income)) ELSE None

\* savingsRate with 0 in the place of null
CashflowSavingsRateZero(income, net) ==
    IF income > 0 THEN Some(MathRound(net * 10000, income)) ELSE Some(0)

\* savingsRate = income > 0 ? (net / income) * 100 : null, then
\* Math.round(savingsRate * 100) / 100
CashflowSavingsRate(income, net) ==
    IF income > 0 THEN Some(MathRound(net * 10000, income)) ELSE None

\* the month's transactions chosen by the month number alone
CashflowMonthTxnsAnyYear(list, currentMonth) ==
    LET Match(t) == parseDate(t.date).m = currentMonth.m
    IN  SelectSeq(list, Match)

CashflowMonthTxns(list, currentMonth) ==
    InMonth(list, currentMonth.y, currentMonth.m)

calculateCashflow(list, currentMonth) ==
    LET monthTxns == CashflowMonthTxns(list, currentMonth)
        income == SumAmounts(SelectSeq(monthTxns, IsIncome))
        expenses == Abs(SumAmounts(SelectSeq(monthTxns, IsExpense)))
        net == income - expenses
        prev == CashflowPreviousMonth(currentMonth)
        prevNet == MonthNet(list, prev.y, prev.m)
    IN  [type |-> "CASHFLOW",
         monthlyIncome |-> RoundToCents(income),
         monthlyExpenses |-> RoundToCents(expenses),
         net |-> RoundToCents(net),
         savingsRate |-> CashflowSavingsRate(income, net),
         trend |-> CashflowTrend(net, prevNet)]

(***************************************************************************)
(* Map<string, number> and Map<string, group>: the entries in insertion    *)
(* order.                                                                  *)
(***************************************************************************)
MapHas(map, key) == \E i \in 1..Len(map) : map[i].key = key

MapGet(map, key) == map[CHOOSE i \in 1..Len(map) : map[i].key = key].value

\* map.get(key) || 0
MapGetOrZero(map, key) == IF MapHas(map, key) THEN MapGet(map, key) ELSE 0

\* map.set(key, value)
MapSet(map, key, value) ==
    IF MapHas(map, key)
    THEN [i \in 1..Len(map) |->
             IF map[i].key = key THEN [key |-> key, value |-> value] ELSE map[i]]
    ELSE Append(map, [key |-> key, value |-> value])

MapKeys(map) == [i \in 1..Len(map) |-> map[i].key]

(***************************************************************************)
(* detectCategoryTrends.  Totals are in mills, deltaPercent in tenths of a *)
(* percent, monthlyImpact in cents, confidence in units of 1/4,000,000.    *)
(***************************************************************************)
\* for (const txn of monthTxns) map.set(cat, (map.get(cat) || 0) + |amount|)
RECURSIVE TotalsByCategory(_)
TotalsByCategory(monthTxns) ==
    IF Len(monthTxns) = 0 THEN <<>>
    ELSE LET before == TotalsByCategory(SubSeq(monthTxns, 1, Len(monthTxns) - 1))
             txn == monthTxns[Len(monthTxns)]
             cat == normalizeCategory(txn.category)
         IN  MapSet(before, cat, MapGetOrZero(before, cat) + Abs(txn.amount))

\* new Set([...a, ...b]): the members in first-insertion order
RECURSIVE SetOfKeys(_)
SetOfKeys(keys) ==
    IF Len(keys) = 0 THEN <<>>
    ELSE LET before == SetOfKeys(SubSeq(keys, 1, Len(keys) - 1))
             k == keys[Len(keys)]
         IN  IF k \in Range(before) THEN before ELSE Append(before, k)

\* the gate with the thresholds included
TrendIsSignificantInclusive(current, previous) ==
    LET deltaIsLarge == IF previous = 0 THEN current > 0
                        ELSE Abs(current - previous) * 100 >= 10 * previous
    IN  deltaIsLarge \/ Abs(current - previous) >= 20000

\* the gate on the amount alone
TrendIsSignificantByAmount(current, previous) ==
    Abs(current - previous) > 20000

\* Math.abs(deltaPercent) > 10 || Math.abs(current - previous) > 20, where
\* deltaPercent is 100 or 0 for previous = 0, else (current-previous)/previous*100
TrendIsSignificant(current, previous) ==
    LET deltaIsLarge == IF previous = 0 THEN current > 0
                        ELSE Abs(current - previous) * 100 > 10 * previous
    IN  deltaIsLarge \/ Abs(current - previous) > 20000

\* Math.round(deltaPercent * 10) / 10, in tenths of a percent
TrendDeltaPercent(current, previous) ==
    IF previous = 0 THEN (IF current > 0 THEN 1000 ELSE 0)
    ELSE MathRound((current - previous) * 1000, previous)

\* the confidence without its cap
TrendConfidenceUncapped(current, previous) ==
    2800000 + Min(current, previous)

\* Math.min(0.95, 0.7 + (Math.min(current, previous) / 1000) * 0.25):
\* a mill of the smaller total adds 0.25 / 1000 / 1000 = 1/4,000,000
TrendConfidence(current, previous) ==
    Min(3800000, 2800000 + Min(current, previous))

TrendSignal(cat, current, previous) ==
    [type |-> "CATEGORY_TREND",
     category |-> cat,
     deltaPercent |-> TrendDeltaPercent(current, previous),
     monthlyImpact |-> RoundToCents(current - previous),
     confidence |-> TrendConfidence(current, previous),
     currentMonth |-> current,
     previousMonth |-> previous]

detectCategoryTrends(list, currentMonth, prevMonth) ==
    LET currentMonthTxns ==
            SelectSeq(InMonth(list, currentMonth.y, currentMonth.m), IsExpense)
        previousMonthTxns ==
            SelectSeq(InMonth(list, prevMonth.y, prevMonth.m), IsExpense)
        currentByCategory == TotalsByCategory(currentMonthTxns)
        previousByCategory == TotalsByCategory(previousMonthTxns)
        allCategories ==
            SetOfKeys(MapKeys(currentByCategory) \o MapKeys(previousByCategory))
        Emitted(cat) ==
            LET current == MapGetOrZero(currentByCategory, cat)
                previous == MapGetOrZero(previousByCategory, cat)
            IN  ~(previous = 0 /\ current = 0)
                    /\ TrendIsSignificant(current, previous)
        reported == SelectSeq(allCategories, Emitted)
    IN  [i \in 1..Len(reported) |->
            TrendSignal(reported[i],
                        MapGetOrZero(currentByCategory, reported[i]),
                        MapGetOrZero(previousByCategory, reported[i]))]

(***************************************************************************)
(* detectAnomalies.  With n expenses of sum S and sum of squares Q, the    *)
(* mean is S/n and the population variance (n*Q - S*S)/(n*n), so that      *)
(* |a| > mean + 2*stdDev is n*|a| - S > 2*sqrt(n*Q - S*S).                 *)
(* Confidence is in thousandths.                                           *)
(***************************************************************************)
RECURSIVE SumSeq(_)
SumSeq(values) ==
    IF Len(values) = 0 THEN 0
    ELSE SumSeq(SubSeq(values, 1, Len(values) - 1)) + values[Len(values)]

SumSquares(values) == SumSeq([i \in 1..Len(values) |-> values[i] * values[i]])

\* the largest r in lo..hi with r * r <= x
RECURSIVE SqrtBetween(_, _, _)
SqrtBetween(x, lo, hi) ==
    IF lo >= hi THEN lo
    ELSE LET mid == (lo + hi + 1) \div 2
         IN  IF mid * mid <= x THEN SqrtBetween(x, mid, hi)
             ELSE SqrtBetween(x, lo, mid - 1)

\* Math.sqrt, truncated to an integer
SqrtFloor(x) == SqrtBetween(x, 0, Min(x, 46340))

\* the amounts of every transaction, income included
AnomalyAmountsOfAll(list) ==
    [i \in 1..Len(list) |-> Abs(list[i].amount)]

\* transactions.filter(t => t.amount < 0).map(t => Math.abs(t.amount))
AnomalyExpenses(list) ==
    LET kept == SelectSeq(list, IsExpense)
    IN  [i \in 1..Len(kept) |-> Abs(kept[i].amount)]

\* the threshold taken as mean + stdDev
AnomalyAboveOneStdDev(amount, expenses) ==
    LET n == Len(expenses)
        S == SumSeq(expenses)
        Q == SumSquares(expenses)
        excess == n * Abs(amount) - S
    IN  excess > 0 /\ excess * excess > n * Q - S * S

\* the threshold taken as mean + 1.5 * stdDev
AnomalyAboveLowerThreshold(amount, expenses) ==
    LET n == Len(expenses)
        S == SumSeq(expenses)
        Q == SumSquares(expenses)
        excess == n * Abs(amount) - S
    IN  excess > 0 /\ 4 * excess * excess > 9 * (n * Q - S * S)

\* Math.abs(txn.amount) > threshold, threshold = mean + 2 * stdDev
AnomalyAboveThreshold(amount, expenses) ==
    LET n == Len(expenses)
        S == SumSeq(expenses)
        Q == SumSquares(expenses)
        excess == n * Abs(amount) - S
    IN  excess > 0 /\ excess * excess > 4 * (n * Q - S * S)

\* the confidence with the quotient inverted: threshold / |amount|
AnomalyConfidenceInverted(amount, expenses) ==
    LET n == Len(expenses)
        S == SumSeq(expenses)
        Q == SumSquares(expenses)
    IN  Min(900, 600 + (300 * (S + 2 * SqrtFloor(n * Q - S * S)))
                          \div (n * Abs(amount)))

\* Math.min(0.9, 0.6 + (Math.abs(txn.amount) / threshold) * 0.3); below the
\* cap the value is truncated to a thousandth
AnomalyConfidence(amount, expenses) ==
    LET n == Len(expenses)
        S == SumSeq(expenses)
        Q == SumSquares(expenses)
        excess == n * Abs(amount) - S
    IN  IF excess >= 0 /\ excess * excess >= 4 * (n * Q - S * S)
        THEN 900
        ELSE 600 + (300 * n * Abs(amount)) \div (S + 2 * SqrtFloor(n * Q - S * S))

AnomalySignal(txn, expenses) ==
    [type |-> "ANOMALY",
     transactionId |-> txn.id,
     amount |-> txn.amount,
     date |-> txn.date,
     \* Math.round((Math.abs(txn.amount) / mean) * 100)
     reasonPercent |-> MathRound(Abs(txn.amount) * Len(expenses) * 100,
                                 SumSeq(expenses)),
     confidence |-> AnomalyConfidence(txn.amount, expenses)]

detectAnomalies(list) ==
    LET expenses == AnomalyExpenses(list)
        Flagged(txn) ==
            txn.amount < 0 /\ AnomalyAboveThreshold(txn.amount, expenses)
        flagged == SelectSeq(list, Flagged)
    IN  IF Len(expenses) < 3 THEN <<>>
        ELSE [i \in 1..Len(flagged) |-> AnomalySignal(flagged[i], expenses)]

(***************************************************************************)
(* detectRecurringCharges.  Amounts are in mills, confidence in            *)
(* hundredths.                                                             *)
(***************************************************************************)
DigitChars == <<"0","1","2","3","4","5","6","7","8","9">>

\* the decimal digits of a natural number, as in a template literal
RECURSIVE Digits(_)
Digits(n) ==
    IF n < 10 THEN <<DigitChars[n + 1]>>
    ELSE Append(Digits(n \div 10), DigitChars[(n % 10) + 1])

\* days from 2000-01-01 to the date (years 2000..2099): getTime() of a local
\* midnight, in days
RECURSIVE DaysBeforeMonth(_, _)
DaysBeforeMonth(y, m) ==
    IF m = 0 THEN 0 ELSE DaysBeforeMonth(y, m - 1) + DaysInMonth(y, m - 1)

getTimeInDays(date) ==
    365 * (date.y - 2000) + ((date.y - 2000 + 3) \div 4)
        + DaysBeforeMonth(date.y, date.m) + (date.d - 1)

\* txn.merchantName || txn.name
ChargeMerchant(txn) ==
    IF txn.merchantName = Null \/ txn.merchantName = <<>>
    THEN txn.name ELSE txn.merchantName


\* the key without the amount
ChargeKeyMerchantOnly(txn) == ChargeMerchant(txn) \o <<"_">>

\* `${txn.merchantName || txn.name}_${Math.round(Math.abs(txn.amount) * 100)}`
ChargeKey(txn) ==
    ChargeMerchant(txn) \o <<"_">> \o Digits(RoundToCents(Abs(txn.amount)))

\* the groups in insertion order: the first transaction of a key sets the
\* group's amount, every transaction appends its date
RECURSIVE ChargeGroups(_)
ChargeGroups(expenseTxns) ==
    IF Len(expenseTxns) = 0 THEN <<>>
    ELSE LET before == ChargeGroups(SubSeq(expenseTxns, 1, Len(expenseTxns) - 1))
             txn == expenseTxns[Len(expenseTxns)]
             key == ChargeKey(txn)
             group == IF MapHas(before, key) THEN MapGet(before, key)
                      ELSE [amount |-> Abs(txn.amount), dates |-> <<>>]
         IN  MapSet(before, key,
                    [group EXCEPT !.dates = Append(group.dates, txn.date)])

\* dates.sort((a, b) => a.getTime() - b.getTime())
RECURSIVE SortDates(_)
SortDates(dates) ==
    IF Len(dates) <= 1 THEN dates
    ELSE LET rest == SortDates(Tail(dates))
             first == Head(dates)
             k == Cardinality({i \in 1..Len(rest) :
                                 getTimeInDays(rest[i]) < getTimeInDays(first)})
         IN  SubSeq(rest, 1, k) \o <<first>> \o SubSeq(rest, k + 1, Len(rest))


\* Math.round of the difference of two local midnights in days
ChargeIntervals(sortedDates) ==
    [i \in 1..(Len(sortedDates) - 1) |->
        getTimeInDays(sortedDates[i + 1]) - getTimeInDays(sortedDates[i])]

\* frequency with the bounds taken as exclusive
ChargeFrequencyExclusive(intervals) ==
    LET count == Len(intervals)
        sum == SumSeq(intervals)
    IN  IF sum > 25 * count /\ sum < 35 * count THEN "monthly"
        ELSE IF sum > 5 * count /\ sum < 9 * count THEN "weekly"
        ELSE IF sum > 360 * count /\ sum < 370 * count THEN "yearly"
        ELSE "none"

\* frequency by avgInterval = sum / count
ChargeFrequency(intervals) ==
    LET count == Len(intervals)
        sum == SumSeq(intervals)
    IN  IF sum >= 25 * count /\ sum <= 35 * count THEN "monthly"
        ELSE IF sum >= 5 * count /\ sum <= 9 * count THEN "weekly"
        ELSE IF sum >= 360 * count /\ sum <= 370 * count THEN "yearly"
        ELSE "none"

\* the confidence with the monthly divisor for every frequency
ChargeConfidenceSameDivisor(frequency, intervals) ==
    LET count == Len(intervals)
        sum == SumSeq(intervals)
        varNum == count * SumSquares(intervals) - sum * sum
        varDen == count * count
    IN  IF frequency = "yearly" THEN [num |-> 7, den |-> 10]
        ELSE IF frequency = "none" THEN [num |-> 0, den |-> 1]
        ELSE IF 2 * (100 * varDen - varNum) >= 100 * varDen
             THEN [num |-> 100 * varDen - varNum, den |-> 100 * varDen]
             ELSE [num |-> 1, den |-> 2]

\* the confidence as the fraction num / den: Math.max(0.5, 1 - variance / K)
\* with variance = (count * sumSquares - sum * sum) / (count * count)
ChargeConfidence(frequency, intervals) ==
    LET count == Len(intervals)
        sum == SumSeq(intervals)
        varNum == count * SumSquares(intervals) - sum * sum
        varDen == count * count
        K == IF frequency = "monthly" THEN 100 ELSE 10
    IN  IF frequency = "yearly" THEN [num |-> 7, den |-> 10]
        ELSE IF frequency = "none" THEN [num |-> 0, den |-> 1]
        ELSE IF 2 * (K * varDen - varNum) >= K * varDen
             THEN [num |-> K * varDen - varNum, den |-> K * varDen]
             ELSE [num |-> 1, den |-> 2]

ChargeSignal(group, frequency, confidence) ==
    [type |-> "RECURRING_CHARGE",
     \* key.split('_')[0]
     name |-> split(group.key, "_")[1],
     amount |-> group.value.amount,
     frequency |-> frequency,
     \* Math.round(confidence * 100) / 100
     confidence |-> MathRound(100 * confidence.num, confidence.den),
     transactionCount |-> Len(group.value.dates)]

ChargeDates(group) == SortDates(group.value.dates)

detectRecurringCharges(list) ==
    LET chargeGroups == ChargeGroups(SelectSeq(list, IsExpense))
        FrequencyOf(group) == ChargeFrequency(ChargeIntervals(ChargeDates(group)))
        ConfidenceOf(group) ==
            ChargeConfidence(FrequencyOf(group), ChargeIntervals(ChargeDates(group)))
        Emitted(group) ==
            /\ Len(group.value.dates) >= 2
            /\ FrequencyOf(group) # "none"
            /\ 2 * ConfidenceOf(group).num > ConfidenceOf(group).den
        reported == SelectSeq(chargeGroups, Emitted)
    IN  [i \in 1..Len(reported) |->
            ChargeSignal(reported[i], FrequencyOf(reported[i]),
                         ConfidenceOf(reported[i]))]

(***************************************************************************)
(* The goal forecast.  Times are in hours, a transaction's date and a      *)
(* goal's target date are midnights, money is returned in cents.           *)
(***************************************************************************)
DateTime(y, m, d, h) == [y |-> y, m |-> m, d |-> d, h |-> h]

Goal(targetAmount, targetDate) ==
    [targetAmount |-> targetAmount, targetDate |-> targetDate]

Max(a, b) == IF a >= b THEN a ELSE b

\* Math.ceil(n / d) for d > 0
MathCeil(n, d) == -((-n) \div d)

\* Date.prototype.getTime, in hours
getTimeInHours(date) == 24 * getTimeInDays(date) + date.h

\* the months remaining with the quotient rounded down
ForecastMonthsRemainingFloor(targetDate, nowDate) ==
    Max(1, (24 * getTimeInDays(targetDate) - getTimeInHours(nowDate))
              \div (24 * 30))

\* Math.max(1, Math.ceil((targetDate - now) / (1000 * 60 * 60 * 24 * 30)))
ForecastMonthsRemaining(targetDate, nowDate) ==
    Max(1, MathCeil(24 * getTimeInDays(targetDate) - getTimeInHours(nowDate),
                    24 * 30))

\* threeMonthsAgo.setMonth(threeMonthsAgo.getMonth() - 3), in hours
ForecastThreeMonthsAgo(nowDate) ==
    24 * getTimeInDays(setMonth(nowDate, nowDate.m - 3)) + nowDate.h

\* allTransactions.filter(t => txnDate >= threeMonthsAgo)
ForecastRecentTransactions(list, nowDate) ==
    LET Recent(t) == 24 * getTimeInDays(t.date) >= ForecastThreeMonthsAgo(nowDate)
    IN  SelectSeq(list, Recent)

\* String(n).padStart(2, '0')
PadStart2(chars) == IF Len(chars) < 2 THEN <<"0">> \o chars ELSE chars

\* `${monthDate.getFullYear()}-${String(monthDate.getMonth() + 1).padStart(2, '0')}`
MonthStr(monthDate) ==
    Digits(monthDate.y) \o <<"-">> \o PadStart2(Digits(monthDate.m + 1))

\* monthDate = new Date(now); monthDate.setMonth(monthDate.getMonth() - i)
ForecastMonthDate(nowDate, i) == setMonth(nowDate, nowDate.m - i)

\* one entry of monthlyData
ForecastMonthData(recentTransactions, monthDate) ==
    LET monthTxns == InMonth(recentTransactions, monthDate.y, monthDate.m)
        income == SumAmounts(SelectSeq(monthTxns, IsIncome))
        expenses == Abs(SumAmounts(SelectSeq(monthTxns, IsExpense)))
        net == income - expenses
    IN  [month |-> MonthStr(monthDate),
         income |-> RoundToCents(income),
         spend |-> RoundToCents(expenses),
         net |-> RoundToCents(net)]

\* for (let i = 2; i >= 0; i--) monthlyData.push(...)
ForecastMonthlyData(list, nowDate) ==
    LET recentTransactions == ForecastRecentTransactions(list, nowDate)
    IN  [k \in 1..3 |->
            ForecastMonthData(recentTransactions, ForecastMonthDate(nowDate, 3 - k))]

\* gapPerMonth <= 0 ? 'on_track' : 'off_track', gapPerMonth being
\* gapNumerator / (3 * monthsRemaining) cents
ForecastStatus(gapNumerator) ==
    IF gapNumerator <= 0 THEN "on_track" ELSE "off_track"

\* the probability with the first test taken as strict
ForecastOnTrackProbabilityStrict(targetAmount, monthsRemaining, netSum) ==
    IF netSum * monthsRemaining > 3 * targetAmount THEN 90
    ELSE IF netSum > 0
         THEN IF 150 * targetAmount + 30 * netSum * monthsRemaining
                    >= 240 * targetAmount
              THEN 80
              ELSE MathRound(150 * targetAmount + 30 * netSum * monthsRemaining,
                             3 * targetAmount)
         ELSE 20

\* onTrackProbability in hundredths, as returned: 0.9 if baseline >= required,
\* Math.min(0.8, 0.5 + (baseline / required) * 0.3) if baseline > 0, else 0.2,
\* then Math.round(onTrackProbability * 100) / 100; baseline is netSum / 3
\* and required is targetAmount / monthsRemaining
ForecastOnTrackProbability(targetAmount, monthsRemaining, netSum) ==
    IF netSum * monthsRemaining >= 3 * targetAmount THEN 90
    ELSE IF netSum > 0
         THEN IF 150 * targetAmount + 30 * netSum * monthsRemaining
                    >= 240 * targetAmount
              THEN 80
              ELSE MathRound(150 * targetAmount + 30 * netSum * monthsRemaining,
                             3 * targetAmount)
         ELSE 20

\* the forecast and feasibility parts of the response; with netSum the sum
\* of the three monthly nets, baselineSurplusPerMonth is netSum / 3 and
\* gapPerMonth is targetAmount / monthsRemaining - netSum / 3
forecast(g, nowDate, list) ==
    LET monthsRemaining == ForecastMonthsRemaining(g.targetDate, nowDate)
        monthlyData == ForecastMonthlyData(list, nowDate)
        netSum == monthlyData[1].net + monthlyData[2].net + monthlyData[3].net
        gapNumerator == 3 * g.targetAmount - monthsRemaining * netSum
    IN  [type |-> "FORECAST",
         monthsRemaining |-> monthsRemaining,
         requiredPerMonth |-> MathRound(g.targetAmount, monthsRemaining),
         estimatedSurplusPerMonth |-> MathRound(netSum, 3),
         gapPerMonth |-> MathRound(gapNumerator, 3 * monthsRemaining),
         status |-> ForecastStatus(gapNumerator),
         onTrackProbability |->
             ForecastOnTrackProbability(g.targetAmount, monthsRemaining, netSum),
         historySummary |-> monthlyData]

(***************************************************************************)
(* The feasibility part of the insights route: the goal insight packet     *)
(* built by GET /api/goals/[id]/insights.  Money is in cents.              *)
(***************************************************************************)
\* the months remaining of the packet with the quotient rounded down
InsightsMonthsRemainingFloor(targetDate, nowDate) ==
    Max(1, (getTimeInHours(DateTime(targetDate.y, targetDate.m, targetDate.d, 0))
              - getTimeInHours(nowDate)) \div (24 * 30))

\* Math.max(1, Math.ceil((targetDate - now) / (1000 * 60 * 60 * 24 * 30)))
InsightsMonthsRemaining(targetDate, nowDate) ==
    Max(1, MathCeil(getTimeInHours(DateTime(targetDate.y, targetDate.m,
                                            targetDate.d, 0))
                      - getTimeInHours(nowDate),
                    24 * 30))

\* allTransactions.filter(t => txnDate >= threeMonthsAgo), threeMonthsAgo
\* being now with setMonth(getMonth() - 3)
InsightsRecentTransactions(list, nowDate) ==
    LET threeMonthsAgo == setMonth(nowDate, nowDate.m - 3)
        Recent(t) ==
            getTimeInHours(DateTime(t.date.y, t.date.m, t.date.d, 0))
                >= getTimeInHours(DateTime(threeMonthsAgo.y, threeMonthsAgo.m,
                                           threeMonthsAgo.d, nowDate.h))
    IN  SelectSeq(list, Recent)

\* monthCategories.set(cat, (monthCategories.get(cat) || 0) + |amount|) over
\* the month's expenses, cat being t.category || 'Uncategorized'
RECURSIVE InsightsMonthCategories(_)
InsightsMonthCategories(expenseTxns) ==
    IF Len(expenseTxns) = 0 THEN <<>>
    ELSE LET before ==
                 InsightsMonthCategories(SubSeq(expenseTxns, 1,
                                                Len(expenseTxns) - 1))
             t == expenseTxns[Len(expenseTxns)]
             cat == IF t.category = Null \/ t.category = <<>>
                    THEN Uncategorized ELSE t.category
         IN  MapSet(before, cat, MapGetOrZero(before, cat) + Abs(t.amount))

\* entries.map(round to cents).sort((a, b) => b.amount - a.amount)
RECURSIVE InsightsCategoryBreakdown(_)
InsightsCategoryBreakdown(monthCategories) ==
    IF Len(monthCategories) = 0 THEN <<>>
    ELSE LET rest == InsightsCategoryBreakdown(Tail(monthCategories))
             first == [category |-> Head(monthCategories).key,
                       amount |-> RoundToCents(Head(monthCategories).value)]
             k == Cardinality({i \in 1..Len(rest) :
                                 rest[i].amount > first.amount})
         IN  SubSeq(rest, 1, k) \o <<first>> \o SubSeq(rest, k + 1, Len(rest))

\* one entry of historySummary
InsightsMonthData(recentTransactions, monthDate) ==
    LET monthTxns == InMonth(recentTransactions, monthDate.y, monthDate.m)
        income == SumAmounts(SelectSeq(monthTxns, IsIncome))
        expenses == Abs(SumAmounts(SelectSeq(monthTxns, IsExpense)))
        net == income - expenses
    IN  [month |-> MonthStr(monthDate),
         income |-> RoundToCents(income),
         spend |-> RoundToCents(expenses),
         net |-> RoundToCents(net),
         categories |->
             InsightsCategoryBreakdown(
                 InsightsMonthCategories(SelectSeq(monthTxns, IsExpense)))]

\* for (let i = 2; i >= 0; i--) historySummary.push(...)
InsightsHistorySummary(list, nowDate) ==
    LET recentTransactions == InsightsRecentTransactions(list, nowDate)
    IN  [k \in 1..3 |->
            InsightsMonthData(recentTransactions,
                              setMonth(nowDate, nowDate.m - (3 - k)))]

\* the goal and feasibility parts of insightPacket; with netSum the sum of
\* the three monthly nets, baselineSurplusPerMonth is netSum / 3 and
\* gapPerMonth is targetAmount / monthsRemaining - netSum / 3
insightPacket(g, nowDate, list) ==
    LET monthsRemaining == InsightsMonthsRemaining(g.targetDate, nowDate)
        historySummary == InsightsHistorySummary(list, nowDate)
        netSum == historySummary[1].net + historySummary[2].net
                      + historySummary[3].net
        gapNumerator == 3 * g.targetAmount - monthsRemaining * netSum
    IN  [type |-> "PACKET",
         goal |-> [target_amount |-> g.targetAmount,
                   months_remaining |-> monthsRemaining],
         feasibility |->
             [required_per_month |-> MathRound(g.targetAmount, monthsRemaining),
              estimated_surplus_per_month |-> MathRound(netSum, 3),
              gap_per_month |-> MathRound(gapNumerator, 3 * monthsRemaining),
              status |-> IF gapNumerator <= 0 THEN "on_track" ELSE "off_track"],
         history_summary |-> historySummary]

(***************************************************************************)
(* The recurring-charges routes: GET /api/recurring lists the detected     *)
(* charges merged with the persisted records, POST /api/recurring/[id]     *)
(* sets a status.  One user with one linked item; a persisted record is    *)
(* [id, name, amount, frequency, confidence, status].                      *)
(***************************************************************************)
DetectedPrefix == <<"d","e","t","e","c","t","e","d","-">>

\* String.prototype.toLowerCase
toLowerCaseString(s) == [i \in 1..Len(s) |-> toLowerCase(s[i])]

\* String.prototype.startsWith
startsWith(s, prefix) ==
    Len(s) >= Len(prefix) /\ SubSeq(s, 1, Len(prefix)) = prefix

\* new Map(records.map(rc => [rc.name.toLowerCase(), rc])): a later record
\* of the same key replaces the value of the earlier one
RECURSIVE ExistingCharges(_)
ExistingCharges(records) ==
    IF Len(records) = 0 THEN <<>>
    ELSE MapSet(ExistingCharges(SubSeq(records, 1, Len(records) - 1)),
                toLowerCaseString(records[Len(records)].name),
                records[Len(records)])

\* the listing entry that takes every field from the persisted record
ListedChargeFromRecord(charge, existingCharges) ==
    LET key == toLowerCaseString(charge.name)
    IN  IF MapHas(existingCharges, key)
        THEN [id |-> MapGet(existingCharges, key).id,
              name |-> MapGet(existingCharges, key).name,
              amount |-> MapGet(existingCharges, key).amount,
              frequency |-> MapGet(existingCharges, key).frequency,
              confidence |-> MapGet(existingCharges, key).confidence,
              transactionCount |-> charge.transactionCount,
              status |-> MapGet(existingCharges, key).status,
              isDetected |-> FALSE]
        ELSE [id |-> DetectedPrefix \o charge.name,
              name |-> charge.name,
              amount |-> charge.amount,
              frequency |-> charge.frequency,
              confidence |-> charge.confidence,
              transactionCount |-> charge.transactionCount,
              status |-> "active",
              isDetected |-> TRUE]

\* one entry of the listing: existing?.id || `detected-${charge.name}`,
\* existing?.status || 'active', isDetected: !existing
ListedCharge(charge, existingCharges) ==
    LET key == toLowerCaseString(charge.name)
        found == MapHas(existingCharges, key)
        existing == MapGet(existingCharges, key)
    IN  [id |-> IF found /\ existing.id # <<>> THEN existing.id
                ELSE DetectedPrefix \o charge.name,
         name |-> charge.name,
         amount |-> charge.amount,
         frequency |-> charge.frequency,
         confidence |-> charge.confidence,
         transactionCount |-> charge.transactionCount,
         status |-> IF found /\ existing.status # "" THEN existing.status
                    ELSE "active",
         isDetected |-> ~found]

\* the confidence filter: 'high' >= 0.8, 'medium' >= 0.6 and < 0.8,
\* 'low' < 0.6, any other value keeps everything; confidence in hundredths
ListingFilter(charges, confidenceFilter) ==
    LET Keep(charge) ==
            IF confidenceFilter = "high" THEN charge.confidence >= 80
            ELSE IF confidenceFilter = "medium"
                 THEN charge.confidence >= 60 /\ charge.confidence < 80
            ELSE IF confidenceFilter = "low" THEN charge.confidence < 60
            ELSE TRUE
    IN  SelectSeq(charges, Keep)

\* the monthly total in units of 1/300 mill: amount for a monthly charge,
\* amount * 4.33 for a weekly one, amount / 12 otherwise, cancelled skipped
RECURSIVE ListingMonthlyTotal(_)
ListingMonthlyTotal(charges) ==
    IF Len(charges) = 0 THEN 0
    ELSE LET charge == charges[Len(charges)]
             monthly == IF charge.frequency = "monthly" THEN 300 * charge.amount
                        ELSE IF charge.frequency = "weekly"
                             THEN 1299 * charge.amount
                             ELSE 25 * charge.amount
         IN  ListingMonthlyTotal(SubSeq(charges, 1, Len(charges) - 1))
                 + (IF charge.status = "cancelled" THEN 0 ELSE monthly)

\* GET /api/recurring; confidenceFilter is "" when the parameter is absent
\* or empty: if (confidenceFilter) takes both as no filter
getRecurring(list, records, confidenceFilter) ==
    IF Len(list) = 0
    THEN [type |-> "LISTING", recurringCharges |-> <<>>, unfiltered |-> <<>>,
          monthlyTotal |-> 0, totalCount |-> 0]
    ELSE LET detectedCharges == detectRecurringCharges(list)
             existingCharges == ExistingCharges(records)
             recurringCharges ==
                 [i \in 1..Len(detectedCharges) |->
                     ListedCharge(detectedCharges[i], existingCharges)]
             filtered == IF confidenceFilter = "" THEN recurringCharges
                         ELSE ListingFilter(recurringCharges, confidenceFilter)
         IN  [type |-> "LISTING",
              recurringCharges |-> filtered,
              \* the local recurringCharges, before the filter
              unfiltered |-> recurringCharges,
              monthlyTotal |-> MathRound(ListingMonthlyTotal(filtered), 3000),
              totalCount |-> Len(filtered)]

\* prisma.recurringCharge.create: appends the record under a fresh id
recurringChargeCreate(records, data) ==
    Append(records,
           [id |-> <<"c">> \o Digits(Len(records) + 1),
            name |-> data.name, amount |-> data.amount,
            frequency |-> data.frequency, confidence |-> data.confidence,
            status |-> data.status])

\* prisma.recurringCharge.update({where: {id}, data: {status}})
recurringChargeUpdate(records, id, status) ==
    [i \in 1..Len(records) |->
        IF records[i].id = id THEN [records[i] EXCEPT !.status = status]
        ELSE records[i]]

\* POST /api/recurring/[id]: the response and the records afterwards
postRecurringStatus(chargeId, status, records) ==
    IF status \notin {"active", "cancelled", "unsure"}
    THEN [response |-> [type |-> "ERROR", status |-> 400], records |-> records]
    ELSE IF startsWith(chargeId, DetectedPrefix)
    THEN LET chargeName ==
                 SubSeq(chargeId, Len(DetectedPrefix) + 1, Len(chargeId))
             created ==
                 recurringChargeCreate(records,
                     [name |-> chargeName, amount |-> 0,
                      frequency |-> "monthly", confidence |-> 70,
                      status |-> status])
         IN  [response |-> [type |-> "UPDATED",
                            id |-> created[Len(created)].id,
                            name |-> chargeName, status |-> status],
              records |-> created]
    ELSE IF \A i \in 1..Len(records) : records[i].id # chargeId
    THEN [response |-> [type |-> "ERROR", status |-> 404], records |-> records]
    ELSE LET updated == recurringChargeUpdate(records, chargeId, status)
             i == CHOOSE k \in 1..Len(updated) : updated[k].id = chargeId
         IN  [response |-> [type |-> "UPDATED", id |-> chargeId,
                            name |-> updated[i].name, status |-> status],
              records |-> updated]

(***************************************************************************)
(* The category normalizer applied by a caller.                            *)
(***************************************************************************)
CategoryChars == {"a", "B", "_", " "}

RECURSIVE StringsUpTo(_)
StringsUpTo(n) ==
    IF n = 0 THEN {<<>>}
    ELSE LET shorter == StringsUpTo(n - 1)
         IN  shorter \cup {Append(s, c) : s \in shorter, c \in CategoryChars}

FoodAndDrink ==
    <<"F","O","O","D","_","A","N","D","_","D","R","I","N","K">>

CategoryInputs ==
    StringsUpTo(MaxLen) \cup {Null, Uncategorized, FoodAndDrink}

NoResult == [type |-> "NONE"]
NoDate == [y |-> 0, m |-> 0, d |-> 1]
NoGoal == [targetAmount |-> 0, targetDate |-> NoDate]

InitNorm ==
    /\ category \in CategoryInputs
    /\ normalized = NotCalled
    /\ transactions = <<>>
    /\ targetMonth = NoDate
    /\ previousMonth = NoDate
    /\ result = NoResult
    /\ goal = NoGoal
    /\ now = NoDate
    /\ recurringCharge = <<>>
    /\ goalInsight = None
    /\ requests = <<>>

\* a caller normalizes a raw category
Normalize ==
    /\ normalized = NotCalled
    /\ normalized' = normalizeCategory(category)
    /\ UNCHANGED <<category, transactions, targetMonth, previousMonth, result>>
    /\ UNCHANGED <<goal, now>>
    /\ UNCHANGED <<recurringCharge, goalInsight, requests>>

\* a label that was returned comes back as a raw category (a stored category
\* may already be in the readable form)
Renormalize ==
    /\ normalized # NotCalled
    /\ category' = normalized
    /\ normalized' = NotCalled
    /\ UNCHANGED <<transactions, targetMonth, previousMonth, result>>
    /\ UNCHANGED <<goal, now>>
    /\ UNCHANGED <<recurringCharge, goalInsight, requests>>

NextNorm == Normalize \/ Renormalize

SpecNorm == InitNorm /\ [][NextNorm]_vars

(***************************************************************************)
(* Claims about normalizeCategory, checked under SpecNorm.                 *)
(***************************************************************************)
FoodAndDrinkLabel ==
    <<"F","o","o","d"," ","A","n","d"," ","D","r","i","n","k">>

\* out is x trimmed, every separator replaced by one space, the first
\* character of every word upper-cased and the others lower-cased
IsTitleCaseOf(x, out) ==
    \E i \in 1..(Len(x) + 1), j \in 0..Len(x) :
        /\ \A k \in 1..(i - 1) : x[k] = " "
        /\ \A k \in (j + 1)..Len(x) : x[k] = " "
        /\ IF i <= j THEN x[i] # " " /\ x[j] # " " ELSE j = i - 1
        /\ LET t == SubSeq(x, i, j)
               sep == IF \E k \in 1..Len(t) : t[k] = "_" THEN "_" ELSE " "
           IN  /\ Len(out) = Len(t)
               /\ \A k \in 1..Len(t) :
                      out[k] = IF t[k] = sep THEN " "
                               ELSE IF k = 1 \/ t[k - 1] = sep
                                    THEN toUpperCase(t[k])
                                    ELSE toLowerCase(t[k])

\* C1: normalizeCategory is idempotent: normalizing a returned label again
\* returns the same label, for every input string.
C1_Idempotent ==
    normalized # NotCalled => normalizeCategory(normalized) = normalized

\* C2 as stated: "Uncategorized" for null and for the literal
\* "Uncategorized", and for ANY other input the trimmed, title-cased words.
C2_AsStated ==
    normalized # NotCalled =>
        IF category \in {Null, Uncategorized}
        THEN normalized = Uncategorized
        ELSE IsTitleCaseOf(category, normalized)

\* C2 (amended): normalizeCategory returns "Uncategorized" for null, for the
\* empty string and for the literal "Uncategorized"; for any other input it
\* returns the trimmed string's words (split on '_' if it contains '_',
\* otherwise on ' '), each with its first letter upper-cased and the rest
\* lower-cased, joined by single spaces.
C2_Normalize ==
    normalized # NotCalled =>
        IF category \in {Null, <<>>, Uncategorized}
        THEN normalized = Uncategorized
        ELSE IsTitleCaseOf(category, normalized)

C2_Witness ==
    category = FoodAndDrink /\ normalized = FoodAndDrinkLabel

(***************************************************************************)
(* calculateCashflow called on a transaction snapshot.                     *)
(***************************************************************************)
Store == <<"S","t","o","r","e">>

\* amounts in mills; currencies with three decimals give sub-cent amounts
CashflowPool ==
    { Txn(-100000, Date(2024, 0, 5), Null, Store, Null),
      Txn(-50000, Date(2024, 1, 5), Null, Store, Null),
      Txn(-95000, Date(2024, 1, 20), Null, Store, Null),
      Txn(30000, Date(2024, 1, 5), Null, Store, Null),
      Txn(1004, Date(2024, 1, 29), Null, Store, Null),
      Txn(0, Date(2024, 1, 10), Null, Store, Null),
      Txn(-20000, Date(2024, 2, 10), Null, Store, Null),
      Txn(6000, Date(2023, 11, 20), Null, Store, Null),
      Txn(-10000, Date(2023, 1, 5), Null, Store, Null),
      Txn(-105000, Date(2024, 2, 31), Null, Store, Null) }

CashflowTargets ==
    { Date(2024, 1, 10), Date(2024, 2, 31), Date(2024, 0, 15),
      Date(2024, 2, 1), Date(2023, 11, 31) }

\* the lists of at most n distinct transactions of a pool, in every order
ListsOf(pool, n) ==
    {WithIds(l) : l \in {q \in SeqsUpTo(pool, n) :
                           \A i, j \in 1..Len(q) : i # j => q[i] # q[j]}}

InitCashflow ==
    /\ category = Null
    /\ normalized = NotCalled
    /\ transactions \in ListsOf(CashflowPool, MaxTxns)
    /\ targetMonth \in CashflowTargets
    /\ previousMonth = NoDate
    /\ result = NoResult
    /\ goal = NoGoal
    /\ now = NoDate
    /\ recurringCharge = <<>>
    /\ goalInsight = None
    /\ requests = <<>>

CallCalculateCashflow ==
    /\ result = NoResult
    /\ result' = calculateCashflow(transactions, targetMonth)
    /\ previousMonth' = CashflowPreviousMonth(targetMonth)
    /\ UNCHANGED <<category, normalized, transactions, targetMonth>>
    /\ UNCHANGED <<goal, now>>
    /\ UNCHANGED <<recurringCharge, goalInsight, requests>>

\* the caller drops the signal and takes the snapshot to the next month
NextTargetMonth ==
    /\ result # NoResult
    /\ result' = NoResult
    /\ previousMonth' = NoDate
    /\ targetMonth' \in CashflowTargets \ {targetMonth}
    /\ UNCHANGED <<category, normalized, transactions>>
    /\ UNCHANGED <<goal, now>>
    /\ UNCHANGED <<recurringCharge, goalInsight, requests>>

NextCashflow == CallCalculateCashflow \/ NextTargetMonth

SpecCashflow == InitCashflow /\ [][NextCashflow]_vars

(***************************************************************************)
(* Claims about calculateCashflow, checked under SpecCashflow.             *)
(***************************************************************************)
RECURSIVE AmountOver(_, _)
AmountOver(list, I) ==
    IF I = {} THEN 0
    ELSE LET i == CHOOSE x \in I : TRUE
         IN  list[i].amount + AmountOver(list, I \ {i})

DatedIn(y, m) ==
    {i \in 1..Len(transactions) :
        transactions[i].date.y = y /\ transactions[i].date.m = m}

\* totals of a calendar month over the snapshot, in mills
IncomeIn(y, m) ==
    AmountOver(transactions, {i \in DatedIn(y, m) : transactions[i].amount > 0})
ExpensesIn(y, m) ==
    0 - AmountOver(transactions, {i \in DatedIn(y, m) : transactions[i].amount < 0})
NetIn(y, m) == IncomeIn(y, m) - ExpensesIn(y, m)

TargetIncome == IncomeIn(targetMonth.y, targetMonth.m)
TargetExpenses == ExpensesIn(targetMonth.y, targetMonth.m)
TargetNet == NetIn(targetMonth.y, targetMonth.m)

\* the calendar month before the target's month
PrecedingYear == IF targetMonth.m = 0 THEN targetMonth.y - 1 ELSE targetMonth.y
PrecedingMonth == IF targetMonth.m = 0 THEN 11 ELSE targetMonth.m - 1

CashflowReturned == result.type = "CASHFLOW"

\* cents is mills rounded to 2 decimals, a half rounded up
IsRoundedToCents(cents, mills) ==
    10 * cents - 5 <= mills /\ mills < 10 * cents + 5

\* 2 * (rate * income - 10000 * net), rate in hundredths of a percent
RateResidual(rate, income, net) ==
    2 * (10000 * ((rate \div 10000) * income - net) + (rate % 10000) * income)

\* C3: savingsRate is null exactly when the target month's income is not
\* greater than 0; otherwise it is net / income * 100 rounded to 2 decimals,
\* always a finite number.
C3_SavingsRate ==
    CashflowReturned =>
        IF TargetIncome > 0
        THEN /\ result.savingsRate # None
             /\ LET rate == result.savingsRate[1]
                IN  /\ rate \in Int
                    /\ RateResidual(rate, TargetIncome, TargetNet) > 0 - TargetIncome
                    /\ RateResidual(rate, TargetIncome, TargetNet) <= TargetIncome
        ELSE result.savingsRate = None

C3_Witness ==
    /\ CashflowReturned
    /\ TargetIncome = 30000 /\ TargetExpenses = 145000
    /\ result.savingsRate = Some(-38333)

C3_WitnessNull ==
    CashflowReturned /\ TargetIncome = 0 /\ TargetExpenses > 0
        /\ result.savingsRate = None

\* C4 as stated: monthlyIncome is the sum of the positive amounts of the
\* target month, monthlyExpenses the sum of the absolute values of its
\* negative amounts, and net is income minus expenses.
C4_AsStated ==
    CashflowReturned =>
        /\ 10 * result.monthlyIncome = TargetIncome
        /\ 10 * result.monthlyExpenses = TargetExpenses
        /\ result.net = result.monthlyIncome - result.monthlyExpenses

\* C4 (amended): monthlyIncome is the sum of the positive amounts dated in
\* the target (year, month), monthlyExpenses the sum of the absolute values
\* of the negative amounts dated in it, and net their difference, each
\* rounded to 2 decimals; other months and zero amounts contribute nothing.
C4_Totals ==
    CashflowReturned =>
        /\ IsRoundedToCents(result.monthlyIncome, TargetIncome)
        /\ IsRoundedToCents(result.monthlyExpenses, TargetExpenses)
        /\ IsRoundedToCents(result.net, TargetIncome - TargetExpenses)

C4_Witness ==
    /\ CashflowReturned
    /\ targetMonth.y = 2024 /\ targetMonth.m = 1
    /\ \E i, j, k \in 1..Len(transactions) :
          /\ transactions[i].amount = 1004
          /\ transactions[j].amount = -50000
          /\ transactions[k].date.y = 2023
    /\ result.monthlyIncome = 100
    /\ result.monthlyExpenses = 5000
    /\ result.net = -4900

\* C5: the trend is 'stable' whenever the net of the month before the target
\* month is exactly 0; otherwise, with change = (net - prevNet)/|prevNet|*100,
\* it is 'improving' iff change > 5, 'declining' iff change < -5 and 'stable'
\* in between.
C5_Trend ==
    CashflowReturned =>
        LET net == TargetNet
            prevNet == NetIn(PrecedingYear, PrecedingMonth)
        IN  IF prevNet = 0 THEN result.trend = "stable"
            ELSE /\ result.trend = "improving" <=> 20 * (net - prevNet) > Abs(prevNet)
                 /\ result.trend = "declining" <=> 20 * (prevNet - net) > Abs(prevNet)
                 /\ result.trend \in {"improving", "declining", "stable"}

\* the same classification against the net of the month that
\* calculateCashflow compares with
TrendAgainstComparedMonth ==
    CashflowReturned =>
        LET net == TargetNet
            prevNet == NetIn(previousMonth.y, previousMonth.m)
        IN  IF prevNet = 0 THEN result.trend = "stable"
            ELSE /\ result.trend = "improving" <=> 20 * (net - prevNet) > Abs(prevNet)
                 /\ result.trend = "declining" <=> 20 * (prevNet - net) > Abs(prevNet)
                 /\ result.trend \in {"improving", "declining", "stable"}

\* C6: for every targetMonth date, the month whose net is the prior net of
\* the trend is the calendar month immediately preceding the target's month,
\* never the target month itself.
C6_PreviousMonth ==
    CashflowReturned =>
        /\ previousMonth.y = PrecedingYear
        /\ previousMonth.m = PrecedingMonth

(***************************************************************************)
(* detectCategoryTrends called on a transaction snapshot and two months.   *)
(***************************************************************************)
CatFOOD == <<"F","O","O","D">>
CatFoodSpace == <<"f","o","o","d"," ">>
CatFun == <<"f","u","n">>
CatFUN == <<"F","U","N">>
LabelFood == <<"F","o","o","d">>
LabelFun == <<"F","u","n">>

TrendPool ==
    { Txn(-21000, Date(2024, 1, 3), CatFOOD, Store, Null),
      Txn(-15000, Date(2024, 1, 5), CatFun, Store, Null),
      Txn(-14000, Date(2024, 0, 5), CatFUN, Store, Null),
      Txn(-1100000, Date(2024, 1, 1), Null, Store, Null),
      Txn(-1200000, Date(2024, 0, 1), Uncategorized, Store, Null),
      Txn(5000, Date(2024, 1, 15), CatFOOD, Store, Null),
      Txn(-400, Date(2024, 1, 20), CatFun, Store, Null),
      Txn(-500, Date(2024, 0, 9), CatFoodSpace, Store, Null),
      Txn(-6000, Date(2023, 1, 7), CatFOOD, Store, Null) }

TrendCurrentMonths == {Date(2024, 1, 10), Date(2024, 0, 31)}
TrendPreviousMonths == {Date(2024, 0, 10), Date(2023, 1, 5), Date(2024, 1, 29)}

InitTrends ==
    /\ category = Null
    /\ normalized = NotCalled
    /\ transactions \in ListsOf(TrendPool, MaxTxns)
    /\ targetMonth \in TrendCurrentMonths
    /\ previousMonth \in TrendPreviousMonths
    /\ result = NoResult
    /\ goal = NoGoal
    /\ now = NoDate
    /\ recurringCharge = <<>>
    /\ goalInsight = None
    /\ requests = <<>>

CallDetectCategoryTrends ==
    /\ result = NoResult
    /\ result' = [type |-> "CATEGORY_TRENDS",
                  value |-> detectCategoryTrends(transactions, targetMonth,
                                                 previousMonth)]
    /\ UNCHANGED <<category, normalized, transactions, targetMonth,
                   previousMonth>>
    /\ UNCHANGED <<goal, now>>
    /\ UNCHANGED <<recurringCharge, goalInsight, requests>>

\* the caller drops the signals and compares with another month
NextPreviousMonth ==
    /\ result # NoResult
    /\ result' = NoResult
    /\ previousMonth' \in TrendPreviousMonths \ {previousMonth}
    /\ UNCHANGED <<category, normalized, transactions, targetMonth>>
    /\ UNCHANGED <<goal, now>>
    /\ UNCHANGED <<recurringCharge, goalInsight, requests>>

NextTrends == CallDetectCategoryTrends \/ NextPreviousMonth

SpecTrends == InitTrends /\ [][NextTrends]_vars

(***************************************************************************)
(* Claims about detectCategoryTrends, checked under SpecTrends.            *)
(***************************************************************************)
TrendsReturned == result.type = "CATEGORY_TRENDS"

\* the expense total of a label in a calendar month, in mills
ExpensesOfLabelIn(label, y, m) ==
    0 - AmountOver(transactions,
                   {i \in DatedIn(y, m) :
                       /\ transactions[i].amount < 0
                       /\ normalizeCategory(transactions[i].category) = label})

CurrentOf(label) == ExpensesOfLabelIn(label, targetMonth.y, targetMonth.m)
PreviousOf(label) == ExpensesOfLabelIn(label, previousMonth.y, previousMonth.m)

SnapshotLabels ==
    {normalizeCategory(transactions[i].category) : i \in 1..Len(transactions)}

SignalsOf(label) ==
    {i \in 1..Len(result.value) : result.value[i].category = label}

\* |deltaPercent| > 10 or |current - previous| > 20 dollars
IsMaterial(current, previous) ==
    \/ previous = 0 /\ current > 0
    \/ previous > 0 /\ 10 * Abs(current - previous) > previous
    \/ Abs(current - previous) > 20000

\* C8: a CategoryTrend is emitted for a normalized category exactly when its
\* expense totals of the two months are not both zero and |deltaPercent| > 10
\* or |current - previous| > 20, raw categories with the same label summed.
C8_Materiality ==
    TrendsReturned =>
        /\ \A i \in 1..Len(result.value) :
               result.value[i].category \in SnapshotLabels
        /\ \A label \in SnapshotLabels :
               LET current == CurrentOf(label)
                   previous == PreviousOf(label)
               IN  /\ Cardinality(SignalsOf(label)) =
                          IF ~(current = 0 /\ previous = 0)
                                 /\ IsMaterial(current, previous)
                          THEN 1 ELSE 0
                   /\ \A i \in SignalsOf(label) :
                          /\ result.value[i].currentMonth = current
                          /\ result.value[i].previousMonth = previous

C8_Witness ==
    /\ TrendsReturned
    /\ CurrentOf(LabelFood) = 21000 /\ PreviousOf(LabelFood) = 0
    /\ SignalsOf(LabelFood) # {}
    /\ CurrentOf(LabelFun) = 15000 /\ PreviousOf(LabelFun) = 14000
    /\ SignalsOf(LabelFun) = {}

\* C9: every emitted CategoryTrend has confidence
\* min(0.95, 0.7 + (min(current, previous) / 1000) * 0.25), which lies in
\* [0.70, 0.95].
C9_Confidence ==
    TrendsReturned =>
        \A i \in 1..Len(result.value) :
            LET signal == result.value[i]
                smaller == Min(CurrentOf(signal.category),
                               PreviousOf(signal.category))
            IN  /\ signal.confidence =
                       IF smaller >= 1000000 THEN 3800000
                       ELSE 2800000 + smaller
                /\ signal.confidence >= 2800000
                /\ signal.confidence <= 3800000

C9_Witness ==
    /\ TrendsReturned
    /\ \E i \in 1..Len(result.value) :
          /\ result.value[i].confidence = 3800000
          /\ result.value[i].currentMonth = 1100000
          /\ result.value[i].previousMonth = 1200000
    /\ \E i \in 1..Len(result.value) :
          /\ result.value[i].confidence = 2800000
          /\ result.value[i].previousMonth = 0

(***************************************************************************)
(* detectAnomalies called on a transaction snapshot.  Transactions of the  *)
(* same content are different transactions: the id tells them apart.       *)
(***************************************************************************)
AnomalyPool ==
    { Txn(100, Date(2024, 1, 5), Null, Store, Null),
      Txn(-100, Date(2024, 1, 5), Null, Store, Null),
      Txn(-300, Date(2024, 1, 6), Null, Store, Null),
      Txn(-2000, Date(2024, 1, 7), Null, Store, Null) }

InitAnomalies ==
    /\ category = Null
    /\ normalized = NotCalled
    /\ transactions \in {WithIds(l) : l \in SeqsUpTo(AnomalyPool, MaxAnomalyTxns)}
    /\ targetMonth = NoDate
    /\ previousMonth = NoDate
    /\ result = NoResult
    /\ goal = NoGoal
    /\ now = NoDate
    /\ recurringCharge = <<>>
    /\ goalInsight = None
    /\ requests = <<>>

CallDetectAnomalies ==
    /\ result = NoResult
    /\ result' = [type |-> "ANOMALIES", value |-> detectAnomalies(transactions)]
    /\ UNCHANGED <<category, normalized, transactions, targetMonth,
                   previousMonth>>
    /\ UNCHANGED <<goal, now>>
    /\ UNCHANGED <<recurringCharge, goalInsight, requests>>

NextAnomalies == CallDetectAnomalies

SpecAnomalies == InitAnomalies /\ [][NextAnomalies]_vars

(***************************************************************************)
(* Claims about detectAnomalies, checked under SpecAnomalies.              *)
(***************************************************************************)
AnomaliesReturned == result.type = "ANOMALIES"

ExpenseCount ==
    Cardinality({i \in 1..Len(transactions) : transactions[i].amount < 0})
IncomeCount ==
    Cardinality({i \in 1..Len(transactions) : transactions[i].amount > 0})

\* C10: detectAnomalies returns the empty list whenever fewer than 3 of the
\* transactions have amount < 0, whatever their amounts and however many
\* income transactions there are.
C10_AnomalyFloor ==
    AnomaliesReturned /\ ExpenseCount < 3 => result.value = <<>>

C10_Witness ==
    /\ AnomaliesReturned
    /\ ExpenseCount = 2 /\ IncomeCount >= 4
    /\ \E i \in 1..Len(transactions) : transactions[i].amount = -2000
    /\ \E i \in 1..Len(transactions) : transactions[i].amount = -100
    /\ result.value = <<>>

\* the transactions with amount < 0, by position
ExpensePositions == {i \in 1..Len(transactions) : transactions[i].amount < 0}

\* the sum of f over a finite set of positions
RECURSIVE SumOver(_, _)
SumOver(positions, f) ==
    IF positions = {} THEN 0
    ELSE LET i == CHOOSE j \in positions : TRUE
         IN  f[i] + SumOver(positions \ {i}, f)

\* with n expenses of total S, n * (|amount| - mean) of every position
ScaledDeviation ==
    LET n == Cardinality(ExpensePositions)
        S == SumOver(ExpensePositions,
                     [i \in 1..Len(transactions) |-> Abs(transactions[i].amount)])
    IN  [i \in 1..Len(transactions) |-> n * Abs(transactions[i].amount) - S]

\* |amount| > mean + 2 * stdDev over the expenses, stdDev being the root of
\* the mean squared deviation: d > 0 and n * d^2 > 4 * (sum of squared d)
IsOutlier(i) ==
    LET n == Cardinality(ExpensePositions)
        d == ScaledDeviation
    IN  /\ transactions[i].amount < 0
        /\ d[i] > 0
        /\ n * d[i] * d[i]
              > 4 * SumOver(ExpensePositions,
                            [j \in 1..Len(transactions) |-> d[j] * d[j]])

Outliers == {i \in 1..Len(transactions) : IsOutlier(i)}

\* C11: with at least 3 expenses, a transaction is flagged exactly when its
\* amount is negative and |amount| > mean + 2 * stdDev of |amount| over the
\* expenses alone; every flagged transaction yields exactly one anomaly with
\* its id and signed amount, and nothing else is reported.
C11_Flagged ==
    AnomaliesReturned /\ ExpenseCount >= 3 =>
        /\ Len(result.value) = Cardinality(Outliers)
        /\ \A i \in Outliers :
              \E k \in 1..Len(result.value) :
                  /\ result.value[k].transactionId = transactions[i].id
                  /\ result.value[k].amount = transactions[i].amount
        /\ \A k \in 1..Len(result.value) :
              \E i \in Outliers :
                  result.value[k].transactionId = transactions[i].id

\* five expenses of 0.10, one of 2.00 and an income: the expense of 2.00 is
\* the one anomaly
C11_Witness ==
    /\ AnomaliesReturned
    /\ ExpenseCount = 6 /\ IncomeCount = 1
    /\ Len(result.value) = 1
    /\ result.value[1].amount = -2000

(***************************************************************************)
(* The insights generator: the four engine functions called on one         *)
(* snapshot, with now as the current month.                                *)
(***************************************************************************)
Gym == <<"G","y","m">>
NameWithUnderscore == <<"a","_","b">>

RecurringPool ==
    { Txn(-4990, Date(2024, 0, 1), CatFun, Store, Gym),
      Txn(-4994, Date(2024, 0, 31), CatFun, Store, Gym),
      Txn(-4990, Date(2024, 2, 1), CatFUN, Store, Gym),
      Txn(-2000, Date(2024, 0, 8), Null, NameWithUnderscore, Null),
      Txn(-2000, Date(2024, 0, 15), Null, NameWithUnderscore, Null),
      Txn(4990, Date(2024, 0, 31), Null, Store, Gym),
      Txn(-4990, Date(2024, 1, 1), CatFOOD, Gym, <<>>) }

SignalsNow == {Date(2024, 0, 31), Date(2024, 2, 15)}

Init ==
    /\ category = Null
    /\ normalized = NotCalled
    /\ transactions \in ListsOf(RecurringPool, MaxTxns)
    /\ targetMonth \in SignalsNow
    /\ previousMonth = setMonth(targetMonth, targetMonth.m - 1)
    /\ result = NoResult
    /\ goal = NoGoal
    /\ now = NoDate
    /\ recurringCharge = <<>>
    /\ goalInsight = None
    /\ requests = <<>>

CallDetectRecurringCharges ==
    /\ result = NoResult
    /\ result' = [type |-> "RECURRING_CHARGES",
                  value |-> detectRecurringCharges(transactions)]
    /\ UNCHANGED <<category, normalized, transactions, targetMonth,
                   previousMonth>>
    /\ UNCHANGED <<goal, now>>
    /\ UNCHANGED <<recurringCharge, goalInsight, requests>>

Next ==
    \/ CallDetectCategoryTrends
    \/ CallDetectAnomalies
    \/ CallDetectRecurringCharges
    \/ CallCalculateCashflow

Spec == Init /\ [][Next]_vars

(***************************************************************************)
(* Claims about all four functions, checked under Spec.             *)
(***************************************************************************)
Orderings(n) ==
    {f \in [1..n -> 1..n] : \A i, j \in 1..n : i # j => f[i] # f[j]}

Shuffled(list, f) == [i \in 1..Len(list) |-> list[f[i]]]

\* C7: on every permutation of the transaction list each of the four
\* functions returns the same result as on the list itself, lists of signals
\* compared as sets.
C7_OrderIndependent ==
    result # NoResult =>
        \A f \in Orderings(Len(transactions)) :
            LET shuffled == Shuffled(transactions, f)
            IN  CASE result.type = "CASHFLOW" ->
                       calculateCashflow(shuffled, targetMonth) = result
                  [] result.type = "CATEGORY_TRENDS" ->
                       Range(detectCategoryTrends(shuffled, targetMonth,
                                                  previousMonth))
                           = Range(result.value)
                  [] result.type = "ANOMALIES" ->
                       Range(detectAnomalies(shuffled)) = Range(result.value)
                  [] result.type = "RECURRING_CHARGES" ->
                       Range(detectRecurringCharges(shuffled)) = Range(result.value)

\* the same, for the three functions other than detectRecurringCharges
OrderIndependentButRecurring ==
    result # NoResult /\ result.type # "RECURRING_CHARGES" => C7_OrderIndependent

(***************************************************************************)
(* detectRecurringCharges called on a snapshot of charges of one merchant  *)
(* at chosen distances, with charges that differ from them in one          *)
(* component of the grouping key.                                          *)
(***************************************************************************)
Spa == <<"S","p","a">>

\* the days 0, 5, 9, 10, 35, 36, 50, 60, 369, 370 and 371 after 2024-01-01
GymDates ==
    { Date(2024, 0, 1), Date(2024, 0, 6), Date(2024, 0, 10), Date(2024, 0, 11),
      Date(2024, 1, 5), Date(2024, 1, 6), Date(2024, 1, 20), Date(2024, 2, 1),
      Date(2025, 0, 4), Date(2025, 0, 5), Date(2025, 0, 6) }

ChargePool ==
    { Txn(-1000, d, Null, Store, Gym) : d \in GymDates }
      \cup
    { Txn(-1004, Date(2024, 0, 31), Null, Store, Gym),
      Txn(-1010, Date(2024, 0, 31), Null, Store, Gym),
      Txn(-1000, Date(2024, 0, 31), Null, Store, Spa),
      Txn(-1000, Date(2024, 0, 31), Null, Gym, Null),
      Txn(1000, Date(2024, 0, 31), Null, Store, Gym),
      Txn(-1000, Date(2024, 0, 1), Null, Store, NameWithUnderscore),
      Txn(-1000, Date(2024, 0, 31), Null, Store, NameWithUnderscore) }

InitRecurring ==
    /\ category = Null
    /\ normalized = NotCalled
    /\ transactions \in ListsOf(ChargePool, MaxTxns)
    /\ targetMonth = NoDate
    /\ previousMonth = NoDate
    /\ result = NoResult
    /\ goal = NoGoal
    /\ now = NoDate
    /\ recurringCharge = <<>>
    /\ goalInsight = None
    /\ requests = <<>>

NextRecurring == CallDetectRecurringCharges

SpecRecurring == InitRecurring /\ [][NextRecurring]_vars

(***************************************************************************)
(* Claims about detectRecurringCharges, checked under SpecRecurring.  A    *)
(* charge is a set of expenses of one merchant and one amount in cents;    *)
(* the charges are told from the transactions, not from the groups the     *)
(* code builds.                                                            *)
(***************************************************************************)
RecurringReturned == result.type = "RECURRING_CHARGES"

\* merchantName if present, else name
MerchantAt(i) ==
    IF transactions[i].merchantName # Null
    THEN transactions[i].merchantName ELSE transactions[i].name

\* |amount| rounded to cents
CentsAt(i) == RoundToCents(Abs(transactions[i].amount))

DayAt(i) == getTimeInDays(transactions[i].date)

ChargeAt(i) ==
    {j \in ExpensePositions : MerchantAt(j) = MerchantAt(i) /\ CentsAt(j) = CentsAt(i)}

Charges == {ChargeAt(i) : i \in ExpensePositions}

FirstOf(charge) == CHOOSE i \in charge : \A j \in charge : i <= j

\* the positions of a charge, earliest date first
ByDate(charge) ==
    CHOOSE order \in [1..Cardinality(charge) -> charge] :
        /\ \A a, b \in 1..Cardinality(charge) : a # b => order[a] # order[b]
        /\ \A a \in 1..(Cardinality(charge) - 1) :
              DayAt(order[a]) <= DayAt(order[a + 1])

\* the day gaps between successive occurrences
Gaps(charge) ==
    [a \in 1..(Cardinality(charge) - 1) |->
        DayAt(ByDate(charge)[a + 1]) - DayAt(ByDate(charge)[a])]

\* the days from the earliest to the latest occurrence: the sum of the gaps
SpanOf(charge) ==
    LET days == {DayAt(i) : i \in charge}
    IN  (CHOOSE hi \in days : \A d \in days : d <= hi)
          - (CHOOSE lo \in days : \A d \in days : lo <= d)

\* lo <= average gap <= hi
AverageGapWithin(charge, lo, hi) ==
    LET count == Cardinality(charge) - 1
    IN  /\ count >= 1
        /\ lo * count <= SpanOf(charge)
        /\ SpanOf(charge) <= hi * count

FrequencyOf(charge) ==
    IF AverageGapWithin(charge, 25, 35) THEN "monthly"
    ELSE IF AverageGapWithin(charge, 5, 9) THEN "weekly"
    ELSE IF AverageGapWithin(charge, 360, 370) THEN "yearly"
    ELSE "none"

\* count^2 times the variance of the gaps: count * sum of (gap - avg)^2
ScaledGapVariance(charge) ==
    LET count == Cardinality(charge) - 1
        gaps == Gaps(charge)
    IN  SumOver(1..count,
                [a \in 1..count |->
                    (count * gaps[a] - SpanOf(charge))
                        * (count * gaps[a] - SpanOf(charge))]) \div count

\* the confidence in hundredths, times count^2 (not yet rounded)
ScaledConfidence(charge) ==
    LET count == Cardinality(charge) - 1
        half == 50 * count * count
        K == IF FrequencyOf(charge) = "monthly" THEN 100 ELSE 10
        value == 100 * count * count - (100 \div K) * ScaledGapVariance(charge)
    IN  IF FrequencyOf(charge) = "yearly" THEN 70 * count * count
        ELSE IF value > half THEN value ELSE half

IsReported(charge) ==
    /\ Cardinality(charge) >= 2
    /\ FrequencyOf(charge) # "none"
    /\ ScaledConfidence(charge)
         > 50 * (Cardinality(charge) - 1) * (Cardinality(charge) - 1)

\* the reported charges in the order of their first transaction
ReportedCharges ==
    LET reported == {c \in Charges : IsReported(c)}
    IN  CHOOSE order \in [1..Cardinality(reported) -> reported] :
            \A a, b \in 1..Cardinality(reported) :
                a < b => FirstOf(order[a]) < FirstOf(order[b])

\* C12: only expenses are grouped, and two expenses are in one group exactly
\* when their merchant (merchantName if present, else name) and their amount
\* in cents are both equal: the signals are those of the charges so formed,
\* each counting the transactions of its charge.
C12_Grouping ==
    RecurringReturned =>
        /\ Len(result.value) = Len(ReportedCharges)
        /\ \A k \in 1..Len(result.value) :
              /\ result.value[k].transactionCount
                    = Cardinality(ReportedCharges[k])
              /\ RoundToCents(result.value[k].amount)
                    = CentsAt(FirstOf(ReportedCharges[k]))

\* a Gym charge of 10.00 on January 1 with, 30 days later, a Gym charge of
\* 10.10 and a Spa charge of 10.00: three charges, none of them recurring
C12_Witness ==
    /\ RecurringReturned
    /\ Len(transactions) = 3
    /\ \E i \in 1..3 : transactions[i].amount = -1010
    /\ \E i \in 1..3 : transactions[i].merchantName = Spa
    /\ \E i \in 1..3 :
          /\ transactions[i].merchantName = Gym
          /\ transactions[i].amount = -1000
          /\ transactions[i].date = Date(2024, 0, 1)
    /\ Cardinality(Charges) = 3
    /\ result.value = <<>>

\* C13: a charge of at least 2 occurrences is classified by the average of
\* the day gaps between its date-sorted occurrences: monthly iff
\* 25 <= avg <= 35, weekly iff 5 <= avg <= 9, yearly iff 360 <= avg <= 370;
\* any other average, and a single occurrence, gives no signal.
C13_Classification ==
    RecurringReturned =>
        /\ Len(result.value) = Len(ReportedCharges)
        /\ \A k \in 1..Len(result.value) :
              result.value[k].frequency = FrequencyOf(ReportedCharges[k])
        /\ \A c \in Charges :
              Cardinality(c) < 2 \/ FrequencyOf(c) = "none" =>
                  \A k \in 1..Len(ReportedCharges) : ReportedCharges[k] # c

\* two occurrences at a distance on a bound of a class, met latest first
TwoAtDistance(days, frequency) ==
    /\ RecurringReturned
    /\ Len(transactions) = 2
    /\ Cardinality(Charges) = 1
    /\ DayAt(1) - DayAt(2) = days
    /\ Len(result.value) = 1
    /\ result.value[1].frequency = frequency

\* two occurrences at a distance just outside a class
TwoApart(days) ==
    /\ RecurringReturned
    /\ Len(transactions) = 2
    /\ Cardinality(Charges) = 1
    /\ DayAt(1) - DayAt(2) = days
    /\ result.value = <<>>

C13_Witness == TwoAtDistance(25, "monthly")
C13_WitnessMonthlyUpper == TwoAtDistance(35, "monthly")
C13_WitnessWeeklyLower == TwoAtDistance(5, "weekly")
C13_WitnessWeeklyUpper == TwoAtDistance(9, "weekly")
C13_WitnessYearlyLower == TwoAtDistance(360, "yearly")
C13_WitnessYearlyUpper == TwoAtDistance(370, "yearly")
C13_WitnessBelowMonthly == TwoApart(24)
C13_WitnessAboveMonthly == TwoApart(36)
C13_WitnessBelowWeekly == TwoApart(4)
C13_WitnessAboveWeekly == TwoApart(10)
C13_WitnessBelowYearly == TwoApart(359)
C13_WitnessAboveYearly == TwoApart(371)

C14_WitnessNotEmitted ==
    /\ RecurringReturned
    /\ Cardinality(Charges) = 1
    /\ Gaps(ChargeAt(1)) = <<10, 40>>
    /\ FrequencyOf(ChargeAt(1)) = "monthly"
    /\ result.value = <<>>

\* gaps of 35 and 25 days: variance 25, confidence 0.75
C14_WitnessBetween ==
    /\ RecurringReturned
    /\ Cardinality(Charges) = 1
    /\ Gaps(ChargeAt(1)) = <<35, 25>>
    /\ Len(result.value) = 1
    /\ result.value[1].confidence = 75

\* C15: the name of every emitted RecurringCharge is the full merchant of its
\* charge (merchantName if present, else name), also when the merchant
\* contains the character '_'.
C15_FullName ==
    RecurringReturned /\ Len(result.value) = Len(ReportedCharges) =>
        \A k \in 1..Len(result.value) :
            result.value[k].name = MerchantAt(FirstOf(ReportedCharges[k]))

\* the name is the merchant up to its first '_'
NameUpToUnderscore ==
    RecurringReturned /\ Len(result.value) = Len(ReportedCharges) =>
        \A k \in 1..Len(result.value) :
            result.value[k].name
                = split(MerchantAt(FirstOf(ReportedCharges[k])), "_")[1]

(***************************************************************************)
(* The forecast route called for a goal, at a time now, on the user's      *)
(* transactions.  Goal amounts are in cents.                               *)
(***************************************************************************)
ForecastPool ==
    { Txn(900000, Date(2024, 2, 10), Null, Store, Null),
      Txn(99990, Date(2024, 2, 10), Null, Store, Null),
      Txn(-50000, Date(2024, 1, 10), Null, Store, Null),
      Txn(60000, Date(2024, 2, 1), Null, Store, Null),
      Txn(30000, Date(2024, 0, 20), Null, Store, Null),
      Txn(1004, Date(2024, 4, 5), Null, Store, Null),
      Txn(70000, Date(2023, 10, 15), Null, Store, Null) }

ForecastNows ==
    { DateTime(2024, 2, 15, 0), DateTime(2024, 2, 15, 12),
      DateTime(2024, 2, 31, 12), DateTime(2024, 4, 31, 0) }

\* 2024-03-15 and the days 30, 60 and 90 days after it, and a day long past
ForecastGoals ==
    { Goal(amount, date) :
        amount \in {120000, 10000, 0, -1000},
        date \in { Date(2024, 0, 1), Date(2024, 2, 15), Date(2024, 3, 14),
                   Date(2024, 4, 14), Date(2024, 5, 13) } }

InitForecast ==
    /\ category = Null
    /\ normalized = NotCalled
    /\ transactions \in ListsOf(ForecastPool, MaxTxns)
    /\ targetMonth = NoDate
    /\ previousMonth = NoDate
    /\ result = NoResult
    /\ goal \in ForecastGoals
    /\ now \in ForecastNows
    /\ recurringCharge = <<>>
    /\ goalInsight = None
    /\ requests = <<>>

\* GET of the forecast route
CallForecast ==
    /\ result = NoResult
    /\ result' = forecast(goal, now, transactions)
    /\ UNCHANGED <<category, normalized, transactions, targetMonth,
                   previousMonth, goal, now>>
    /\ UNCHANGED <<recurringCharge, goalInsight, requests>>

NextForecast == CallForecast

SpecForecast == InitForecast /\ [][NextForecast]_vars

(***************************************************************************)
(* Claims about the forecast, checked under SpecForecast.                  *)
(***************************************************************************)
ForecastReturned == result.type = "FORECAST"

\* the hours from now to the goal's target date
HoursToTarget == 24 * getTimeInDays(goal.targetDate) - getTimeInHours(now)

\* C16: monthsRemaining is max(1, ceil(days to the target date / 30)), so it
\* is at least 1 also for a target date at or before now, and
\* requiredPerMonth is targetAmount / monthsRemaining; target 1200 with 2
\* months remaining and a baseline surplus of 300 gives requiredPerMonth
\* 600, gapPerMonth 300 and status off_track.
C16_MonthsRemaining ==
    ForecastReturned =>
        /\ result.monthsRemaining >= 1
        /\ 30 * 24 * result.monthsRemaining >= HoursToTarget
        /\ result.monthsRemaining > 1 =>
              30 * 24 * (result.monthsRemaining - 1) < HoursToTarget
        /\ 2 * Abs(result.monthsRemaining * result.requiredPerMonth
                     - goal.targetAmount) <= result.monthsRemaining
        /\ ( /\ goal.targetAmount = 120000
             /\ result.monthsRemaining = 2
             /\ result.estimatedSurplusPerMonth = 30000 )
              => /\ result.requiredPerMonth = 60000
                 /\ result.gapPerMonth = 30000
                 /\ result.status = "off_track"

\* the example of the claim, asked at noon 59.5 days before the target date
C16_Witness ==
    /\ ForecastReturned
    /\ goal.targetAmount = 120000
    /\ HoursToTarget = 24 * 60 - 12
    /\ result.monthsRemaining = 2
    /\ result.estimatedSurplusPerMonth = 30000
    /\ result.status = "off_track"

\* a target date before now: one month remains
C16_WitnessPast ==
    /\ ForecastReturned
    /\ HoursToTarget < 0
    /\ result.monthsRemaining = 1
    /\ result.requiredPerMonth = goal.targetAmount

\* the calendar month k months before the month of now
MonthsBefore(k) ==
    IF now.m >= k THEN [y |-> now.y, m |-> now.m - k]
    ELSE [y |-> now.y - 1, m |-> now.m - k + 12]

\* the net of all supplied transactions dated in a calendar month, in mills
NetOfMonth(month) ==
    SumOver({i \in 1..Len(transactions) :
                /\ transactions[i].date.y = month.y
                /\ transactions[i].date.m = month.m},
            [i \in 1..Len(transactions) |-> transactions[i].amount])

\* the history and the average of the three months ending with the month
\* of now, every month's net to the cent
BaselineOfTrailingMonths ==
    /\ \A k \in 1..3 :
          /\ result.historySummary[k].month
                = Digits(MonthsBefore(3 - k).y) \o <<"-">>
                     \o PadStart2(Digits(MonthsBefore(3 - k).m + 1))
          /\ result.historySummary[k].net
                = RoundToCents(NetOfMonth(MonthsBefore(3 - k)))
    /\ 2 * Abs(3 * result.estimatedSurplusPerMonth
                 - ( RoundToCents(NetOfMonth(MonthsBefore(2)))
                       + RoundToCents(NetOfMonth(MonthsBefore(1)))
                       + RoundToCents(NetOfMonth(MonthsBefore(0))) )) <= 3

\* C17: for every now, on any day of the month, the baseline surplus is the
\* average over three distinct consecutive calendar months, the month of now
\* and the two before it, of the month's net over all supplied transactions
\* dated in it; a month without transactions counts 0, the divisor is 3.
C17_Baseline == ForecastReturned => BaselineOfTrailingMonths

\* the same for a now on a day that every month has
BaselineOnCommonDays ==
    ForecastReturned /\ now.d <= 28 => BaselineOfTrailingMonths

\* C18: in every returned feasibility result the status is on_track iff the
\* returned gapPerMonth is <= 0; a returned gapPerMonth of 0 comes with
\* on_track.
C18_Status ==
    ForecastReturned =>
        (result.status = "on_track" <=> result.gapPerMonth <= 0)

\* the status follows the gap before it is rounded: required minus the
\* average of the three returned monthly nets
StatusOfUnroundedGap ==
    ForecastReturned =>
        ( result.status = "on_track"
            <=> 3 * goal.targetAmount
                  <= result.monthsRemaining
                       * ( result.historySummary[1].net
                             + result.historySummary[2].net
                             + result.historySummary[3].net ) )

(***************************************************************************)
(* Claims about the engine on an empty snapshot, checked under Spec.       *)
(***************************************************************************)
\* C19: on the empty transaction list detectCategoryTrends, detectAnomalies
\* and detectRecurringCharges return the empty list and calculateCashflow
\* returns monthlyIncome 0, monthlyExpenses 0, net 0, savingsRate null and
\* trend 'stable'.
C19_EmptyList ==
    transactions = <<>> /\ result # NoResult =>
        IF result.type = "CASHFLOW"
        THEN /\ result.monthlyIncome = 0
             /\ result.monthlyExpenses = 0
             /\ result.net = 0
             /\ result.savingsRate = None
             /\ result.trend = "stable"
        ELSE /\ result.type \in {"CATEGORY_TRENDS", "ANOMALIES",
                                 "RECURRING_CHARGES"}
             /\ result.value = <<>>

C19_Witness ==
    /\ transactions = <<>>
    /\ result # NoResult
    /\ result.type = "CASHFLOW"
    /\ result.trend = "stable"

C19_WitnessTrends ==
    transactions = <<>> /\ result = [type |-> "CATEGORY_TRENDS", value |-> <<>>]

C19_WitnessAnomalies ==
    transactions = <<>> /\ result = [type |-> "ANOMALIES", value |-> <<>>]

C19_WitnessRecurring ==
    transactions = <<>> /\ result = [type |-> "RECURRING_CHARGES", value |-> <<>>]

(***************************************************************************)
(* The caller's arguments once an engine function has returned.  A method  *)
(* that changes its receiver changes the caller's object when the receiver *)
(* is the argument itself, and leaves it alone when the receiver is a copy *)
(* or an array made by the function.                                       *)
(***************************************************************************)
\* setMonth called on the argument itself
ArgumentsAfterCashflowAliased(list, currentMonth) ==
    [transactions |-> list,
     currentMonth |-> setMonth(currentMonth, currentMonth.m - 1)]

\* calculateCashflow: filter and reduce make new values; setMonth is called
\* on previousMonth = new Date(currentMonth), a copy
ArgumentsAfterCashflow(list, currentMonth) ==
    [transactions |-> list, currentMonth |-> currentMonth]

\* detectCategoryTrends: only getters of the two dates are called; filter,
\* the maps and the set are new values
ArgumentsAfterTrends(list, currentMonth, prevMonth) ==
    [transactions |-> list, currentMonth |-> currentMonth,
     previousMonth |-> prevMonth]

\* detectAnomalies: filter, map and reduce make new values
ArgumentsAfterAnomalies(list) == [transactions |-> list]

\* detectRecurringCharges: sort is called on group.dates, an array the
\* function made; the dates in it are the transactions' own, and are only read
ArgumentsAfterRecurring(list) == [transactions |-> list]

(***************************************************************************)
(* Callers that share one snapshot: any engine function is called at any   *)
(* time, any number of times, on the same list and the same months.        *)
(***************************************************************************)
InvokeCalculateCashflow ==
    /\ result' = calculateCashflow(transactions, targetMonth)
    /\ transactions' = ArgumentsAfterCashflow(transactions, targetMonth).transactions
    /\ targetMonth' = ArgumentsAfterCashflow(transactions, targetMonth).currentMonth
    /\ UNCHANGED <<category, normalized, previousMonth, goal, now>>
    /\ UNCHANGED <<recurringCharge, goalInsight, requests>>

InvokeDetectCategoryTrends ==
    LET after == ArgumentsAfterTrends(transactions, targetMonth, previousMonth)
    IN  /\ result' = [type |-> "CATEGORY_TRENDS",
                      value |-> detectCategoryTrends(transactions, targetMonth,
                                                     previousMonth)]
        /\ transactions' = after.transactions
        /\ targetMonth' = after.currentMonth
        /\ previousMonth' = after.previousMonth
        /\ UNCHANGED <<category, normalized, goal, now>>
        /\ UNCHANGED <<recurringCharge, goalInsight, requests>>

InvokeDetectAnomalies ==
    /\ result' = [type |-> "ANOMALIES", value |-> detectAnomalies(transactions)]
    /\ transactions' = ArgumentsAfterAnomalies(transactions).transactions
    /\ UNCHANGED <<category, normalized, targetMonth, previousMonth, goal, now>>
    /\ UNCHANGED <<recurringCharge, goalInsight, requests>>

InvokeDetectRecurringCharges ==
    /\ result' = [type |-> "RECURRING_CHARGES",
                  value |-> detectRecurringCharges(transactions)]
    /\ transactions' = ArgumentsAfterRecurring(transactions).transactions
    /\ UNCHANGED <<category, normalized, targetMonth, previousMonth, goal, now>>
    /\ UNCHANGED <<recurringCharge, goalInsight, requests>>

NextSnapshot ==
    \/ InvokeCalculateCashflow
    \/ InvokeDetectCategoryTrends
    \/ InvokeDetectAnomalies
    \/ InvokeDetectRecurringCharges

SpecSnapshot == Init /\ [][NextSnapshot]_vars

(***************************************************************************)
(* Claims about the arguments, checked under SpecSnapshot.                 *)
(***************************************************************************)
\* the result is the one of a call on the snapshot as it is now
ResultOfSnapshot(r, list, currentMonth, prevMonth) ==
    CASE r.type = "CASHFLOW" -> r = calculateCashflow(list, currentMonth)
      [] r.type = "CATEGORY_TRENDS" ->
           r.value = detectCategoryTrends(list, currentMonth, prevMonth)
      [] r.type = "ANOMALIES" -> r.value = detectAnomalies(list)
      [] r.type = "RECURRING_CHARGES" -> r.value = detectRecurringCharges(list)
      [] OTHER -> r = NoResult

C20_WitnessCashflow ==
    /\ result.type = "CASHFLOW"
    /\ targetMonth = Date(2024, 2, 15)

(***************************************************************************)
(* Further claims about detectAnomalies, checked under SpecAnomalies.      *)
(***************************************************************************)
\* C25: every anomaly has confidence exactly 0.9: a flagged amount exceeds
\* the threshold, so 0.6 + (|amount| / threshold) * 0.3 exceeds 0.9 and the
\* cap applies.
C25_ConfidenceCapped ==
    AnomaliesReturned =>
        \A k \in 1..Len(result.value) : result.value[k].confidence = 900

\* an anomaly was emitted
C25_Witness ==
    /\ AnomaliesReturned
    /\ Len(result.value) >= 1
    /\ result.value[1].amount = -2000
    /\ result.value[1].confidence = 900

\* C26: with fewer than 6 expenses nothing is flagged, whatever the amounts:
\* among n values none exceeds the mean by more than (n - 1) / sqrt(n)
\* standard deviations, which is below 2 for n <= 5.
C26_FewExpenses ==
    AnomaliesReturned /\ ExpenseCount < 6 => result.value = <<>>

\* four expenses of 0.10 and one of 2.00, the furthest one value of five can
\* be from the mean: 1.79 standard deviations
C26_Witness ==
    /\ AnomaliesReturned
    /\ ExpenseCount = 5
    /\ Cardinality({i \in ExpensePositions : transactions[i].amount = -100}) = 4
    /\ \E i \in ExpensePositions : transactions[i].amount = -2000
    /\ result.value = <<>>

(***************************************************************************)
(* detectRecurringCharges called on charges of one merchant and one amount *)
(* whose gaps are uneven.                                                  *)
(***************************************************************************)
MaxCharges == 4

\* the days 0, 22, 39, 67, 89 and 97 after 2024-01-01
UnevenPool ==
    { Txn(-1000, d, Null, Store, Gym) :
        d \in { Date(2024, 0, 1), Date(2024, 0, 23), Date(2024, 1, 9),
                Date(2024, 2, 8), Date(2024, 2, 30), Date(2024, 3, 7) } }

InitUneven ==
    /\ category = Null
    /\ normalized = NotCalled
    /\ transactions \in ListsOf(UnevenPool, MaxCharges)
    /\ targetMonth = NoDate
    /\ previousMonth = NoDate
    /\ result = NoResult
    /\ goal = NoGoal
    /\ now = NoDate
    /\ recurringCharge = <<>>
    /\ goalInsight = None
    /\ requests = <<>>

NextUneven == CallDetectRecurringCharges

SpecUneven == InitUneven /\ [][NextUneven]_vars

\* C27: every returned RecurringCharge has a confidence field strictly
\* greater than 0.5 and at most 1.0, also after the rounding to 2 decimals.
C27_ConfidenceRange ==
    RecurringReturned =>
        \A k \in 1..Len(result.value) :
            /\ result.value[k].confidence > 50
            /\ result.value[k].confidence <= 100

\* the confidence field is at least 0.5 and at most 1.0
ConfidenceAtLeastHalf ==
    RecurringReturned =>
        \A k \in 1..Len(result.value) :
            /\ result.value[k].confidence >= 50
            /\ result.value[k].confidence <= 100

(***************************************************************************)
(* Further claims about detectCategoryTrends, checked under SpecTrends.    *)
(***************************************************************************)
\* C28: a category with expenses in only one of the two compared months is
\* always emitted, however small the amount: deltaPercent is exactly 100 for
\* previous = 0 and current > 0, and exactly -100 for current = 0 and
\* previous > 0.
C28_NewOrVanished ==
    TrendsReturned =>
        \A label \in SnapshotLabels :
            /\ CurrentOf(label) > 0 /\ PreviousOf(label) = 0 =>
                  /\ Cardinality(SignalsOf(label)) = 1
                  /\ \A i \in SignalsOf(label) :
                        result.value[i].deltaPercent = 1000
            /\ CurrentOf(label) = 0 /\ PreviousOf(label) > 0 =>
                  /\ Cardinality(SignalsOf(label)) = 1
                  /\ \A i \in SignalsOf(label) :
                        result.value[i].deltaPercent = -1000

\* a category new with 0.40 and a category gone after 0.50
C28_Witness ==
    /\ TrendsReturned
    /\ CurrentOf(LabelFun) = 400 /\ PreviousOf(LabelFun) = 0
    /\ CurrentOf(LabelFood) = 0 /\ PreviousOf(LabelFood) = 500
    /\ Len(result.value) = 2

(***************************************************************************)
(* Further claims about the forecast, checked under SpecForecast.          *)
(***************************************************************************)
\* C29: in every forecast response onTrackProbability lies in [0.2, 0.9] and
\* is 0.9 exactly when the status is on_track, for every target amount, the
\* non-positive ones included, and every baseline surplus.
C29_OnTrackProbability ==
    ForecastReturned =>
        /\ result.onTrackProbability >= 20
        /\ result.onTrackProbability <= 90
        /\ result.onTrackProbability = 90 <=> result.status = "on_track"

\* a target of 0 and no transactions: required 0, baseline 0, on track
C29_Witness ==
    /\ ForecastReturned
    /\ goal.targetAmount = 0
    /\ transactions = <<>>
    /\ result.status = "on_track"
    /\ result.onTrackProbability = 90

\* a baseline between 0 and the required amount
C29_WitnessBetween ==
    /\ ForecastReturned
    /\ result.status = "off_track"
    /\ result.onTrackProbability > 50
    /\ result.onTrackProbability < 80

\* a negative target with a baseline below it
C29_WitnessNegative ==
    /\ ForecastReturned
    /\ goal.targetAmount < 0
    /\ result.status = "off_track"
    /\ result.onTrackProbability = 20


(***************************************************************************)
(* The insights route building its packet for a goal, at a time now, on    *)
(* the user's transactions: the inputs are those of the forecast route.    *)
(***************************************************************************)
\* GET of the insights route up to the packet handed to the generation step
CallInsightPacket ==
    /\ result = NoResult
    /\ result' = insightPacket(goal, now, transactions)
    /\ UNCHANGED <<category, normalized, transactions, targetMonth,
                   previousMonth, goal, now>>
    /\ UNCHANGED <<recurringCharge, goalInsight, requests>>

NextFeasibility == CallInsightPacket

SpecFeasibility == InitForecast /\ [][NextFeasibility]_vars

PacketBuilt == result.type = "PACKET"

\* C23: for the same goal, transactions and now, the feasibility of the
\* insights route's packet (required per month, estimated surplus per
\* month, gap per month, status) equals what the forecast route returns,
\* and so do the months remaining.
C23_SameFeasibility ==
    PacketBuilt =>
        LET f == forecast(goal, now, transactions)
        IN  /\ result.feasibility.required_per_month = f.requiredPerMonth
            /\ result.feasibility.estimated_surplus_per_month
                   = f.estimatedSurplusPerMonth
            /\ result.feasibility.gap_per_month = f.gapPerMonth
            /\ result.feasibility.status = f.status
            /\ result.goal.months_remaining = f.monthsRemaining

\* a packet for a goal two months and a fraction away, with history, off track
C23_Witness ==
    /\ PacketBuilt
    /\ result.goal.months_remaining = 3
    /\ result.feasibility.status = "off_track"
    /\ result.feasibility.estimated_surplus_per_month > 0
    /\ result.feasibility.gap_per_month > 0

\* a packet on track
C23_WitnessOnTrack ==
    /\ PacketBuilt
    /\ result.feasibility.status = "on_track"
    /\ result.feasibility.required_per_month > 0


(***************************************************************************)
(* The recurring-charges routes called by one user: listings and status    *)
(* updates in any order on a fixed transaction history.                    *)
(***************************************************************************)
MaxRecords == 2    \* most persisted recurring-charge records

GymLower == <<"g","y","m">>
Net == <<"N","e","t">>

\* the histories as the route reads them, newest first: none, a monthly gym
\* charge, and that with a weekly charge of uneven intervals (5 and 9 days)
ListingSnapshots ==
    LET gymCharges == << Txn(-4990, Date(2024, 0, 31), Null, Store, Gym),
                         Txn(-4990, Date(2024, 0, 1), Null, Store, Gym) >>
        netCharges == << Txn(-1500, Date(2024, 0, 15), Null, Store, Net),
                         Txn(-1500, Date(2024, 0, 6), Null, Store, Net),
                         Txn(-1500, Date(2024, 0, 1), Null, Store, Net) >>
    IN  {<<>>, gymCharges, netCharges \o gymCharges}

ConfidenceFilters == {"", "high", "medium", "low", "all"}

\* the ids a client can address: detected ones by name, persisted ones, and
\* one that no record has
ChargeIds ==
    {DetectedPrefix \o name : name \in {Gym, GymLower, Net}}
        \cup {recurringCharge[i].id : i \in 1..Len(recurringCharge)}
        \cup {<<"c", "0">>}

InitListing ==
    /\ category = Null
    /\ normalized = NotCalled
    /\ transactions \in ListingSnapshots
    /\ targetMonth = NoDate
    /\ previousMonth = NoDate
    /\ result = NoResult
    /\ goal = NoGoal
    /\ now = NoDate
    /\ recurringCharge = <<>>
    /\ goalInsight = None
    /\ requests = <<>>

\* GET /api/recurring
GetRecurring ==
    /\ \E confidenceFilter \in ConfidenceFilters :
          result' = getRecurring(transactions, recurringCharge, confidenceFilter)
    /\ UNCHANGED <<category, normalized, transactions, targetMonth,
                   previousMonth, goal, now, recurringCharge, goalInsight,
                   requests>>

\* POST /api/recurring/[id]
PostRecurringStatus ==
    /\ \E chargeId \in ChargeIds,
          status \in {"active", "cancelled", "unsure", "paused"} :
          LET after == postRecurringStatus(chargeId, status, recurringCharge)
          IN  /\ Len(after.records) <= MaxRecords
              /\ result' = after.response
              /\ recurringCharge' = after.records
    /\ UNCHANGED <<category, normalized, transactions, targetMonth,
                   previousMonth, goal, now, goalInsight, requests>>

NextListing == GetRecurring \/ PostRecurringStatus

SpecListing == InitListing /\ [][NextListing]_vars

(***************************************************************************)
(* Claims about the recurring-charges routes, checked under SpecListing.   *)
(***************************************************************************)
Listed == result.type = "LISTING"

\* the positions of the persisted records whose name is that name ignoring
\* letter case
RecordsNamed(name) ==
    {k \in 1..Len(recurringCharge) :
        toLowerCaseString(recurringCharge[k].name) = toLowerCaseString(name)}

LastOf(positions) == CHOOSE k \in positions : \A j \in positions : j <= k

\* C21: the unfiltered listing has one entry per detected charge, in order,
\* with the detected name, amount, frequency and confidence; its status is
\* that of the persisted record of that name ignoring case (the newest one
\* if there are several), and 'active' with isDetected = true when there
\* is none.
C21_ListingMerge ==
    Listed =>
        LET detected == detectRecurringCharges(transactions)
            listed == result.unfiltered
        IN  /\ Len(listed) = Len(detected)
            /\ \A i \in 1..Len(detected) :
                  /\ listed[i].name = detected[i].name
                  /\ listed[i].amount = detected[i].amount
                  /\ listed[i].frequency = detected[i].frequency
                  /\ listed[i].confidence = detected[i].confidence
                  /\ IF RecordsNamed(detected[i].name) = {}
                     THEN /\ listed[i].status = "active"
                          /\ listed[i].isDetected
                     ELSE LET rc == recurringCharge[
                                       LastOf(RecordsNamed(detected[i].name))]
                          IN  /\ listed[i].status = rc.status
                              /\ listed[i].id = rc.id
                              /\ ~listed[i].isDetected

\* a listing of two charges: the gym one labelled cancelled through a record
\* named in lower case, the other one unlabelled
C21_Witness ==
    /\ Listed
    /\ Len(result.unfiltered) = 2
    /\ \E i, j \in 1..2 :
          /\ result.unfiltered[i].name = Gym
          /\ result.unfiltered[i].status = "cancelled"
          /\ result.unfiltered[i].amount = 4990
          /\ \E k \in 1..Len(recurringCharge) :
                recurringCharge[k].name = GymLower
          /\ result.unfiltered[j].name = Net
          /\ result.unfiltered[j].isDetected
          /\ result.unfiltered[j].status = "active"

\* the listing that would be returned now
ListingNow == getRecurring(transactions, recurringCharge, "").unfiltered

\* C30: after accepted status updates there is at most one persisted record
\* per charge name, and the listing reports for a charge the status set by
\* the update just accepted for its name.
C30_OneRecordPerName ==
    /\ \A i, j \in 1..Len(recurringCharge) :
          recurringCharge[i].name = recurringCharge[j].name => i = j
    /\ result.type = "UPDATED" =>
          \A i \in 1..Len(ListingNow) :
              toLowerCaseString(ListingNow[i].name)
                    = toLowerCaseString(result.name)
                  => ListingNow[i].status = result.status

\* what holds instead: an accepted update addressed by a persisted id leaves
\* the number of records unchanged, and one addressed by a detected id adds
\* a record whatever records exist
UpdateAddsRecordOnlyForDetectedId ==
    [][ Len(recurringCharge') # Len(recurringCharge)
            => /\ result'.type = "UPDATED"
               /\ recurringCharge'
                     = Append(recurringCharge,
                              recurringCharge'[Len(recurringCharge')])
               /\ recurringCharge'[Len(recurringCharge')].name = result'.name
       ]_vars


(***************************************************************************)
(* GET /api/goals/[id]/insights as a process: its steps are the stretches  *)
(* between its awaits, so that requests running at once interleave there.  *)
(* One goal; goalInsight is the goal's row of the insight table, or None.  *)
(* An insight is its summary and projected completion date; topReasons and *)
(* actionPlan travel with the summary as JSON text.                        *)
(***************************************************************************)
MaxRequests == 2   \* most insights requests in flight at once

Requests == 1..MaxRequests

NoRequest ==
    [pc |-> "idle", regenerate |-> FALSE, goal |-> NoGoal,
     packet |-> NoResult, llmResponse |-> NoResult, response |-> NoResult]

\* what generateGoalInsights returns when it does not throw
LlmReplies ==
    { [type |-> "REPLY", summary |-> "save more",
       projected_completion_date |-> "undefined"],
      [type |-> "REPLY", summary |-> "cut dining",
       projected_completion_date |-> "2024-12-31"] }

\* generateGoalInsights throwing: no API key, no content, unparsable content
Thrown == [type |-> "THROWN"]

\* the create and update data of the upsert:
\* projectedCompletionDate: llmResponse.projected_completion_date || null
InsightData(llmResponse) ==
    [summary |-> llmResponse.summary,
     projectedCompletionDate |->
         IF llmResponse.projected_completion_date \in {"undefined", ""}
         THEN "null" ELSE llmResponse.projected_completion_date]

\* the response for stored insights:
\* projected_completion_date: existing.projectedCompletionDate || undefined
CachedResponse(existingInsights) ==
    [type |-> "INSIGHTS", cached |-> TRUE,
     insights |->
         [type |-> "REPLY", summary |-> existingInsights.summary,
          projected_completion_date |->
              IF existingInsights.projectedCompletionDate \in {"null", ""}
              THEN "undefined" ELSE existingInsights.projectedCompletionDate]]

\* the response of the catch block
InsightsError == [type |-> "ERROR", status |-> 500]

\* regenerate read, the goal found: the request goes on to the stored
\* insights unless it regenerates
InsightsStarted(regenerate, goalRow) ==
    [NoRequest EXCEPT !.pc = IF regenerate THEN "build" ELSE "check",
                      !.regenerate = regenerate, !.goal = goalRow]

\* if (!regenerate) { existingInsights = findUnique; if (existingInsights)
\* return them }
InsightsChecked(req, existingInsights) ==
    IF existingInsights # None
    THEN [req EXCEPT !.pc = "done",
                     !.response = CachedResponse(existingInsights[1])]
    ELSE [req EXCEPT !.pc = "build"]

\* the generation step with a failure answered by a fallback reply
InsightsGeneratedWithFallback(req, outcome) ==
    IF outcome = Thrown
    THEN [req EXCEPT !.pc = "upsert",
                     !.llmResponse =
                         [type |-> "REPLY",
                          summary |-> "Unable to generate summary",
                          projected_completion_date |-> "undefined"]]
    ELSE [req EXCEPT !.pc = "upsert", !.llmResponse = outcome]

\* llmResponse = await generateGoalInsights(insightPacket): a throw is
\* caught by the handler's catch block, which answers 500
InsightsGenerated(req, outcome) ==
    IF outcome = Thrown
    THEN [req EXCEPT !.pc = "done", !.llmResponse = Thrown,
                     !.response = InsightsError]
    ELSE [req EXCEPT !.pc = "upsert", !.llmResponse = outcome]

\* the response after the upsert: the generated insights and the packet
InsightsSaved(req) ==
    [req EXCEPT !.pc = "done",
                !.response = [type |-> "INSIGHTS", cached |-> FALSE,
                              insights |-> req.llmResponse,
                              packet |-> req.packet]]

\* the goals a client sets, in cents; an amount of 0 is refused
InsightGoals ==
    { Goal(120000, Date(2024, 5, 13)), Goal(10000, Date(2024, 3, 14)) }

InsightSnapshots ==
    { <<>>,
      << Txn(900000, Date(2024, 2, 10), Null, Store, Null),
         Txn(-50000, Date(2024, 1, 10), Null, Store, Null) >> }

InitInsights ==
    /\ category = Null
    /\ normalized = NotCalled
    /\ transactions \in InsightSnapshots
    /\ targetMonth = NoDate
    /\ previousMonth = NoDate
    /\ result = NoResult
    /\ goal \in InsightGoals
    /\ now = DateTime(2024, 2, 15, 12)
    /\ recurringCharge = <<>>
    /\ goalInsight = None
    /\ requests = [r \in Requests |-> NoRequest]

\* a request arrives: the parameters are read and the goal is found
StartInsights(r) ==
    /\ requests[r].pc \in {"idle", "done"}
    /\ \E regenerate \in BOOLEAN :
          requests' = [requests EXCEPT ![r] = InsightsStarted(regenerate, goal)]
    /\ UNCHANGED <<category, normalized, transactions, targetMonth,
                   previousMonth, result, goal, now, recurringCharge,
                   goalInsight>>

\* the stored insights are looked up
CheckInsights(r) ==
    /\ requests[r].pc = "check"
    /\ requests' = [requests EXCEPT
                       ![r] = InsightsChecked(requests[r], goalInsight)]
    /\ UNCHANGED <<category, normalized, transactions, targetMonth,
                   previousMonth, result, goal, now, recurringCharge,
                   goalInsight>>

\* the user's transactions are loaded and the packet is built
BuildInsightPacket(r) ==
    /\ requests[r].pc = "build"
    /\ requests' = [requests EXCEPT
                       ![r].pc = "generate",
                       ![r].packet =
                           insightPacket(requests[r].goal, now, transactions)]
    /\ UNCHANGED <<category, normalized, transactions, targetMonth,
                   previousMonth, result, goal, now, recurringCharge,
                   goalInsight>>

\* the generation step answers or throws
GenerateInsights(r) ==
    /\ requests[r].pc = "generate"
    /\ \E outcome \in LlmReplies \cup {Thrown} :
          requests' = [requests EXCEPT
                          ![r] = InsightsGenerated(requests[r], outcome)]
    /\ UNCHANGED <<category, normalized, transactions, targetMonth,
                   previousMonth, result, goal, now, recurringCharge,
                   goalInsight>>

\* prisma.goalInsight.upsert({where: {goalId}, create, update}), then the
\* response
UpsertInsights(r) ==
    /\ requests[r].pc = "upsert"
    /\ goalInsight' = Some(InsightData(requests[r].llmResponse))
    /\ requests' = [requests EXCEPT ![r] = InsightsSaved(requests[r])]
    /\ UNCHANGED <<category, normalized, transactions, targetMonth,
                   previousMonth, result, goal, now, recurringCharge>>

\* PUT /api/goals/[id]: the goal's target amount and date are replaced; a
\* body without an amount (0 included) is answered 400
UpdateGoal ==
    /\ \E body \in InsightGoals \cup {Goal(0, Date(2024, 5, 13))} :
          /\ goal' = IF body.targetAmount = 0 THEN goal ELSE body
          /\ result' = IF body.targetAmount = 0
                       THEN [type |-> "ERROR", status |-> 400]
                       ELSE [type |-> "GOAL", goal |-> body]
    /\ UNCHANGED <<category, normalized, transactions, targetMonth,
                   previousMonth, now, recurringCharge, goalInsight, requests>>

NextInsights ==
    \/ \E r \in Requests :
          \/ StartInsights(r)
          \/ CheckInsights(r)
          \/ BuildInsightPacket(r)
          \/ GenerateInsights(r)
          \/ UpsertInsights(r)
    \/ UpdateGoal

SpecInsights == InitInsights /\ [][NextInsights]_vars

(***************************************************************************)
(* Claims about the insights requests, checked under SpecInsights.         *)
(***************************************************************************)
\* request r takes a step
Steps(r) == requests'[r] # requests[r]

\* C22: once insights are stored, no step of a request without
\* regenerate=true modifies the stored insights or invokes the generation
\* step, and such a request ends by returning exactly the stored insights.
C22_OnlyRegenerationInvalidates ==
    [][ \A r \in Requests :
            (goalInsight # None /\ Steps(r) /\ ~requests'[r].regenerate)
                => /\ goalInsight' = goalInsight
                   /\ requests[r].pc # "generate"
                   /\ requests'[r].pc = "done"
                          => requests'[r].response
                                 = CachedResponse(goalInsight[1])
      ]_vars

\* what holds instead: a request without regenerate=true that looks the
\* stored insights up when there are some returns exactly them and ends,
\* leaving the store alone; and an update of the goal leaves the store alone
StoredInsightsReturnedWhenFound ==
    [][ /\ \A r \in Requests :
              (goalInsight # None /\ Steps(r) /\ requests[r].pc = "check")
                  => /\ goalInsight' = goalInsight
                     /\ requests'[r].pc = "done"
                     /\ requests'[r].response = CachedResponse(goalInsight[1])
        /\ goal' # goal => goalInsight' = goalInsight
      ]_vars

\* C24: when the generation step fails, that step ends the request with the
\* error response and leaves the stored insights as they are; no step of a
\* request before its upsert writes the store, and a request whose
\* generation failed never reaches the upsert.
C24_FailureKeepsStore ==
    [][ \A r \in Requests :
            Steps(r) =>
                /\ requests'[r].llmResponse = Thrown
                       => /\ requests'[r].pc = "done"
                          /\ requests'[r].response = InsightsError
                          /\ goalInsight' = goalInsight
                /\ requests[r].pc # "upsert" => goalInsight' = goalInsight
                /\ requests[r].pc = "upsert"
                       => requests[r].llmResponse \in LlmReplies
      ]_vars

\* a regeneration failed while insights were stored
C24_Witness ==
    \E r \in Requests :
        /\ requests[r].llmResponse = Thrown
        /\ requests[r].regenerate
        /\ requests[r].response = InsightsError
        /\ goalInsight # None

\* a first generation failed with nothing stored
C24_WitnessFirst ==
    \E r \in Requests :
        /\ requests[r].llmResponse = Thrown
        /\ ~requests[r].regenerate
        /\ requests[r].response = InsightsError
        /\ goalInsight = None

====
